---- MODULE Spec2Model ----
(***************************************************************************)
(* A model of the vello HTTP client (class vello, caching variant): the    *)
(* request pipeline request() -> executeRequestWithRetry(), its retry      *)
(* scheduler, its error classification and its response cache.             *)
(*                                                                         *)
(* One client instance serves Reqs calls, which may overlap: every await   *)
(* of the code is a point where another call may run.  The transport, the  *)
(* timers and the caller-supplied interceptors are the environment: the    *)
(* transport's result of each attempt is chosen when the attempt ends.     *)
(***************************************************************************)
EXTENDS Integers, Sequences, FiniteSets, TLC

(***************************************************************************)
(* Bounds of the model.                                                    *)
(***************************************************************************)
NumReqs == 2        \* calls made on the client
MaxRetries == 2     \* largest retries value a policy is given
MaxTicks == 2       \* times the clock advances
TickMs == 2500      \* milliseconds the clock advances by

(***************************************************************************)
(* Constants of the program.                                               *)
(***************************************************************************)
DefaultRetries == 0
DefaultRetryDelay == 1000
DefaultTtl == 300000
DefaultTimeout == 10000

Reqs == 1..NumReqs

(***************************************************************************)
(* JavaScript objects with optional properties are functions on the set of *)
(* properties present.  {...a, ...b}: b's properties win.                  *)
(***************************************************************************)
Empty == <<>>

Spread(a, b) == b @@ a

\* rec.f || d for a numeric property: undefined and 0 are both falsy
NumOr(rec, f, d) == IF f \in DOMAIN rec /\ rec[f] # 0 THEN rec[f] ELSE d

\* rec.f used as a condition for a boolean property
Truthy(rec, f) == f \in DOMAIN rec /\ rec[f] = TRUE

RECURSIVE Pow2(_)
Pow2(n) == IF n = 0 THEN 1 ELSE 2 * Pow2(n - 1)

(***************************************************************************)
(* Errors.  name is the JavaScript error's name, fetchMsg whether its      *)
(* message includes 'fetch', code and status the VelloError's code and     *)
(* response.status ("" and 0 when absent), src the stage that threw it.    *)
(***************************************************************************)
NoErr == [name |-> "none", fetchMsg |-> FALSE, code |-> "", status |-> 0, src |-> "none"]

VelloError(code, status, src) ==
    [name |-> "VelloError", fetchMsg |-> FALSE, code |-> code, status |-> status, src |-> src]

AbortError == [name |-> "AbortError", fetchMsg |-> FALSE, code |-> "", status |-> 0, src |-> "timer"]

\* fetch rejects with TypeError('fetch failed' / 'Failed to fetch') when no server is reached
FetchTypeError == [name |-> "TypeError", fetchMsg |-> TRUE, code |-> "", status |-> 0, src |-> "fetch"]

\* any other rejection of fetch
FetchOtherError == [name |-> "Error", fetchMsg |-> FALSE, code |-> "", status |-> 0, src |-> "fetch"]

\* reading a body a second time rejects with a TypeError that does not mention fetch
BodyUsedError == [name |-> "TypeError", fetchMsg |-> FALSE, code |-> "", status |-> 0, src |-> "body"]

\* what a failing storage backend throws
StorageError == [name |-> "Error", fetchMsg |-> FALSE, code |-> "", status |-> 0, src |-> "storage"]

\* what a caller-supplied key function throws
KeyFunctionError == [name |-> "Error", fetchMsg |-> FALSE, code |-> "", status |-> 0, src |-> "key"]

\* what encodeURIComponent throws for a string with a lone surrogate
URIError == [name |-> "URIError", fetchMsg |-> FALSE, code |-> "", status |-> 0, src |-> "key"]

\* what a caller-supplied interceptor throws
InterceptorError(which) == [name |-> "Error", fetchMsg |-> FALSE, code |-> "", status |-> 0, src |-> which]

(***************************************************************************)
(* The transport's Response.  body says what the body stream holds: "json" *)
(* parses as JSON, "text" does not.  A body stream can be read once:       *)
(* after response.json() has read it and failed to parse it, the           *)
(* response.text() of the catch branch rejects with a TypeError.           *)
(***************************************************************************)
NoResp == [status |-> 0, statusText |-> "", body |-> "none"]

Resp(status, statusText, body) == [status |-> status, statusText |-> statusText, body |-> body]

Bodies == {"json", "text"}

TransportResponses ==
    {Resp(200, "OK", b) : b \in Bodies}
    \cup {Resp(404, "Not Found", b) : b \in Bodies}
    \cup {Resp(500, "Internal Server Error", b) : b \in Bodies}

TransportErrors == {FetchTypeError, FetchOtherError}

\* a bug: the lower end of the 2xx range taken as exclusive
OkExclusive(resp) == resp.status > 200 /\ resp.status < 300

\* response.ok
Ok(resp) == resp.status >= 200 /\ resp.status < 300

(***************************************************************************)
(* VelloResponse and CachedResponse (headers are carried along unchanged   *)
(* and left out).                                                          *)
(***************************************************************************)
NoEnvelope == [data |-> "", status |-> 0, statusText |-> "", config |-> Empty]

NoEntry == [data |-> "", timestamp |-> 0 - 1, ttl |-> 0, status |-> 0, statusText |-> ""]

CachedMarker == " (Cached)"

(***************************************************************************)
(* Calls: the verb operations put the method into the options and call     *)
(* request(endpoint, options).  options.retry and options.cache are the    *)
(* per-call policies.                                                      *)
(***************************************************************************)
NoCall == [method |-> "", endpoint |-> "", headers |-> Empty, timeout |-> 0 - 1,
           retry |-> Empty, cache |-> Empty]

Verbs == {[method |-> "GET", endpoint |-> "/users"], [method |-> "POST", endpoint |-> "/orders"]}

\* options.headers and options.timeout are carried by the verbs that set
\* them; a timeout of -1 stands for options without a timeout
Call(verb, retry, cacheOptions) ==
    [method |-> verb.method, endpoint |-> verb.endpoint,
     headers |-> IF "headers" \in DOMAIN verb THEN verb.headers ELSE Empty,
     timeout |-> IF "timeout" \in DOMAIN verb THEN verb.timeout ELSE 0 - 1,
     retry |-> retry, cache |-> cacheOptions]

BaseUrl == "https://api.test"

(***************************************************************************)
(* request(), lines 136-159: config resolution.                            *)
(***************************************************************************)
LibraryRetry == [retries |-> DefaultRetries, retryDelay |-> DefaultRetryDelay, retryCondition |-> "default"]

LibraryCache == [enabled |-> FALSE, ttl |-> DefaultTtl, storage |-> "memory"]

LibraryHeaders == "Content-Type" :> "application/json"

\* a bug: the instance's defaults spread after the call's values
ResolveConfigInstanceFirst(cfg, call) ==
    [method |-> call.method,
     timeout |-> IF call.timeout >= 0 THEN call.timeout ELSE NumOr(cfg, "timeout", DefaultTimeout),
     responseType |-> "json",
     headers |-> Spread(Spread(LibraryHeaders, call.headers),
                        IF "defaultHeaders" \in DOMAIN cfg THEN cfg.defaultHeaders ELSE Empty),
     retry |-> Spread(Spread(LibraryRetry, call.retry), cfg.retry),
     cache |-> Spread(Spread(LibraryCache, call.cache), cfg.cache)]

ResolveConfig(cfg, call) ==
    [method |-> call.method,
     timeout |-> IF call.timeout >= 0 THEN call.timeout ELSE NumOr(cfg, "timeout", DefaultTimeout),
     responseType |-> "json",
     headers |-> Spread(Spread(LibraryHeaders,
                               IF "defaultHeaders" \in DOMAIN cfg THEN cfg.defaultHeaders ELSE Empty),
                        call.headers),
     retry |-> Spread(Spread(LibraryRetry, cfg.retry), call.retry),
     cache |-> Spread(Spread(LibraryCache, cfg.cache), call.cache)]

(***************************************************************************)
(* Error classification, shouldRetryRequest lines 282-291 and handleError  *)
(* lines 388-398.                                                          *)
(***************************************************************************)
ToVelloError(error) ==
    IF error.name = "VelloError" THEN error
    ELSE IF error.name = "AbortError" THEN VelloError("TIMEOUT", 0, error.src)
    ELSE IF error.name = "TypeError" /\ error.fetchMsg THEN VelloError("NETWORK_ERROR", 0, error.src)
    ELSE VelloError("UNKNOWN", 0, error.src)

\* a bug: every error response retried, client errors included
DefaultRetryConditionFrom400(error) ==
    IF error.code = "NETWORK_ERROR" \/ error.code = "TIMEOUT" THEN TRUE
    ELSE IF error.status # 0 /\ error.status >= 400 THEN TRUE
    ELSE FALSE

DefaultRetryCondition(error) ==
    IF error.code = "NETWORK_ERROR" \/ error.code = "TIMEOUT" THEN TRUE
    ELSE IF error.status # 0 /\ error.status >= 500 THEN TRUE
    ELSE FALSE

\* config.retry.retryCondition applied: the default, or a caller's predicate
RetryCondition(kind, error) ==
    CASE kind = "always" -> TRUE
      [] kind = "never" -> FALSE
      [] OTHER -> DefaultRetryCondition(error)

\* a bug: the retry budget compared with > instead of >=
ShouldRetryRequestOffByOne(error, rc, retryCount) ==
    LET maxRetries == NumOr(rc.retry, "retries", 0)
    IN  IF retryCount > maxRetries THEN FALSE
        ELSE RetryCondition(rc.retry.retryCondition, ToVelloError(error))

\* a bug: the retry budget not looked at
ShouldRetryRequestUnbounded(error, rc, retryCount) ==
    RetryCondition(rc.retry.retryCondition, ToVelloError(error))

\* lines 274-280: whether shouldRetryRequest gets as far as the retry predicate
RetryConditionCalled(rc, retryCount) == ~(retryCount >= NumOr(rc.retry, "retries", 0))

ShouldRetryRequest(error, rc, retryCount) ==
    LET maxRetries == NumOr(rc.retry, "retries", 0)
    IN  IF retryCount >= maxRetries THEN FALSE
        ELSE RetryCondition(rc.retry.retryCondition, ToVelloError(error))

\* config.retry.retryDelayFunction, a caller's function of the attempt index
\* and the error: here one that waits by the error's code
RetryDelayFunction(retryCount, velloError) ==
    (retryCount + 1) * (CASE velloError.code = "TIMEOUT" -> 100
                          [] velloError.code = "NETWORK_ERROR" -> 200
                          [] velloError.code = "UNKNOWN" -> 300
                          [] OTHER -> 400)

\* lines 300-301: the error calculateRetryDelay gives to the delay function
ToDelayError(error) ==
    IF error.name = "VelloError" THEN error ELSE VelloError("UNKNOWN", 0, error.src)

CalculateRetryDelay(retryCount, error, rc) ==
    IF "retryDelayFunction" \in DOMAIN rc.retry
    THEN RetryDelayFunction(retryCount, ToDelayError(error))
    ELSE NumOr(rc.retry, "retryDelay", DefaultRetryDelay) * Pow2(retryCount)

(***************************************************************************)
(* handleErrorResponse and parseResponse.  Each yields the error thrown    *)
(* (NoErr when none) and the data parsed.                                  *)
(***************************************************************************)
HandleErrorResponse(resp) ==
    IF resp.body = "json"
    THEN VelloError(ToString(resp.status), resp.status, "http")
    ELSE BodyUsedError

ParseResponse(resp, responseType) ==
    CASE responseType = "text" -> [err |-> NoErr, data |-> "body"]
      [] resp.body = "json" -> [err |-> NoErr, data |-> "object"]
      [] OTHER -> [err |-> BodyUsedError, data |-> ""]

(***************************************************************************)
(* State.                                                                  *)
(***************************************************************************)
VARIABLES
    config,      \* this.config
    cache,       \* this.cache, the in-memory Map: key -> CachedResponse
    localStore,  \* window.localStorage: key -> serialized CachedResponse
    customStore, \* the entries a caller-supplied backend holds: key -> CachedResponse
    hasWindow,   \* whether the runtime has window.localStorage
    purged,      \* the keys cached when clearCache was called and not written since
    deleted,     \* the keys given to deleteCacheItem and not written since
    now,         \* Date.now()
    ticks,       \* times the clock may still advance
    req          \* the calls: req[r] is call r's frame

vars == <<config, cache, localStore, customStore, hasWindow, purged, deleted, now, ticks, req>>

IdleReq ==
    [pc |-> "idle",            \* idle, intercept, fetch, sleep, handleError, done
     call |-> NoCall,          \* endpoint and options of the call
     rc |-> Empty,             \* requestConfig
     retryCount |-> 0,         \* executeRequestWithRetry's retryCount
     attempts |-> 0,           \* fetch() calls made
     lastResp |-> NoResp,      \* the Response of the current attempt
     err |-> NoErr,            \* the error the catch block holds
     delay |-> 0,              \* the delay slept before the current attempt
     timer |-> 0 - 1,          \* the delay of the attempt's armed timer, -1 when none is armed
     armed |-> {},             \* the attempts whose timer is armed and has neither fired nor been cleared
     lateFires |-> 0,          \* timers that fired after their attempt had ended
     elapsed |-> FALSE,        \* that delay has passed since the attempt started
     returned |-> FALSE,       \* a VelloResponse was returned to the caller
     raised |-> FALSE,         \* an error was raised to the caller
     response |-> NoEnvelope,  \* the VelloResponse returned
     thrown |-> NoErr,         \* the error raised
     hit |-> FALSE,            \* served from the cache
     lookedAt |-> 0 - 1,       \* Date.now() of the cache lookup
     lookedKey |-> "",         \* the cacheKey of the lookup (line 168)
     wroteKey |-> "",          \* the cacheKey of the write (line 199)
     wroteAt |-> 0 - 1,        \* Date.now() of the cache write
     reqIcCalls |-> 0,         \* invocations of the request interceptor
     reqIcOut |-> Empty,       \* the config it returned
     condCalls |-> 0,          \* invocations of the retry predicate
     errIcCalls |-> 0,         \* invocations of the error interceptor
     errIcArg |-> NoErr,       \* the error it was given
     respIcCalls |-> 0,        \* invocations of the response interceptor
     accepted |-> TRUE,        \* every failed attempt's error satisfied the retry predicate
     served |-> NoResp,        \* the first 2xx Response the transport delivered
     servedAt |-> 0,           \* the attempt that received it
     final |-> NoErr,          \* the error handleError was given
     found |-> NoEntry,        \* what getFromCache returned to the lookup
     getLog |-> <<>>,          \* the keys the caller-supplied backend's get was called with
     setLog |-> <<>>,          \* key and ttl of each call of the caller-supplied backend's set
     keyPurged |-> FALSE,      \* the lookup's key was cached at a clearCache and not written since
     keyDeleted |-> FALSE,     \* the lookup's key was given to deleteCacheItem and not written since
     seen |-> <<>>,            \* cache-less client: what the transport did to each attempt
     waits |-> <<>>,           \* cache-less client: the delays slept
     after |-> {}]             \* the calls that had completed when this one was made

(***************************************************************************)
(* Cache store.                                                            *)
(***************************************************************************)
\* JSON.stringify / JSON.parse of a CachedResponse whose data is JSON data
Stringify(entry) == [json |-> entry]

Parse(text) == text.json

MapGet(map, key) == IF key \in DOMAIN map THEN map[key] ELSE NoEntry

\* str.includes(part): part occurs in str
Includes(str, part) ==
    \E i \in 1..(Len(str) - Len(part) + 1) : SubSeq(str, i, i + Len(part) - 1) = part

ReadWords == {"search", "query", "filter", "list", "find", "get"}

\* /\/(search|query|filter|list|find|get)/.test(endpoint): the pattern is not
\* anchored, it matches wherever a slash is followed by one of the words
ReadPattern(endpoint) == \E w \in ReadWords : Includes(endpoint, "/" \o w)

\* headers['Content-Type'] || ''
ContentType(rc) == IF "Content-Type" \in DOMAIN rc.headers THEN rc.headers["Content-Type"] ELSE ""

\* a bug: policy.methods taken as the complete list of eligible methods
IsCacheableRequestListedOnly(endpoint, rc, instCache) ==
    LET cacheConfig == Spread(instCache, rc.cache)
        method == rc.method
    IN  IF "methods" \in DOMAIN cacheConfig THEN method \in cacheConfig.methods
        ELSE IF method = "GET" \/ method = "HEAD" THEN TRUE
        ELSE IF Truthy(cacheConfig, "allowUnsafeMethods") THEN TRUE
        ELSE IF method = "POST" THEN ReadPattern(endpoint)
        ELSE FALSE

IsCacheableRequest(endpoint, rc, instCache) ==
    LET cacheConfig == Spread(instCache, rc.cache)
        method == rc.method
    IN  IF "methods" \in DOMAIN cacheConfig /\ method \in cacheConfig.methods THEN TRUE
        ELSE IF method = "GET" \/ method = "HEAD" THEN TRUE
        ELSE IF Truthy(cacheConfig, "allowUnsafeMethods") THEN TRUE
        ELSE IF method = "POST"
             THEN IF "safePaths" \in DOMAIN cacheConfig
                  THEN \E p \in cacheConfig.safePaths : Includes(endpoint, p)
                  ELSE IF Includes(ContentType(rc), "application/graphql") THEN TRUE
                  ELSE ReadPattern(endpoint)
        ELSE FALSE

\* a bug: the time of the call made part of the key
GenerateCacheKeyTimed(url, rc, instCache) ==
    "vello:" \o rc.method \o ":" \o url \o ":" \o ToString(now)

\* policy.key is a string or a function: [typeof |-> "string", value |-> the
\* string] or [typeof |-> "function"]
KeyString(str) == [typeof |-> "string", value |-> str]

KeyFunctionOfUrl == [typeof |-> "function"]

\* a caller's key function that throws
KeyFunctionThrows == [typeof |-> "function", throws |-> TRUE]

\* stands for a lone surrogate code unit in a URL
LoneSurrogate == "<D800>"

\* url.split('/').pop()
LastSegment(url) ==
    IF \E i \in 1..Len(url) : SubSeq(url, i, i) = "/"
    THEN LET i == CHOOSE j \in 1..Len(url) :
                      /\ SubSeq(url, j, j) = "/"
                      /\ \A k \in (j + 1)..Len(url) : SubSeq(url, k, k) # "/"
         IN  SubSeq(url, i + 1, Len(url))
    ELSE url

\* the caller's key function (part_000, lines 125-129)
KeyFunction(url, rc) == "user123-" \o LastSegment(url) \o "-" \o rc.method

\* generateCacheKey, lines 449-466: the error it throws, or NoErr.  The key
\* function's error is thrown as it is (line 452); of the default key
\* encodeURIComponent throws for a lone surrogate, and btoa is given Latin-1
\* characters only
GenerateCacheKeyThrown(url, rc, instCache) ==
    LET cacheConfig == Spread(instCache, rc.cache)
    IN  IF "key" \in DOMAIN cacheConfig /\ cacheConfig.key.typeof = "function"
        THEN IF "throws" \in DOMAIN cacheConfig.key THEN KeyFunctionError ELSE NoErr
        ELSE IF "key" \in DOMAIN cacheConfig /\ cacheConfig.key.typeof = "string"
        THEN NoErr
        ELSE IF Includes(url, LoneSurrogate) THEN URIError ELSE NoErr

\* a bug: a fixed key used as a prefix of the derived key
GenerateCacheKeyScoped(url, rc, instCache) ==
    LET cacheConfig == Spread(instCache, rc.cache)
    IN  IF "key" \in DOMAIN cacheConfig /\ cacheConfig.key.typeof = "function"
        THEN KeyFunction(url, rc)
        ELSE IF "key" \in DOMAIN cacheConfig /\ cacheConfig.key.typeof = "string"
        THEN cacheConfig.key.value \o ":" \o rc.method \o ":" \o url
        ELSE "vello:" \o rc.method \o ":" \o url \o ":" \o ContentType(rc)

\* The default key encodes method:url:headers:body; of the headers the calls
\* differ in Content-Type only, and they all carry the same body.  The
\* encoding btoa(...) is one-to-one and is left out.
GenerateCacheKey(url, rc, instCache) ==
    LET cacheConfig == Spread(instCache, rc.cache)
    IN  IF "key" \in DOMAIN cacheConfig /\ cacheConfig.key.typeof = "function"
        THEN KeyFunction(url, rc)
        ELSE IF "key" \in DOMAIN cacheConfig /\ cacheConfig.key.typeof = "string"
        THEN cacheConfig.key.value
        ELSE "vello:" \o rc.method \o ":" \o url \o ":" \o ContentType(rc)

\* a bug: the catch block throws the error on
Rethrown(error) == error

\* catch (error) { console.warn(...) } of getFromCache and setToCache: the
\* error leaving the function when its try block threw error
Caught(error) == NoErr

\* cacheConfig.customStorage: "store" keeps what it is given, "absent" answers
\* every get with null, "throws" fails in get and in set
HasCustomStorage(cacheConfig) == "customStorage" \in DOMAIN cacheConfig

\* a bug: the Map is read first, whichever backend the policy names
BackendGetMapFirst(key, cacheConfig) ==
    IF key \in DOMAIN cache THEN [err |-> NoErr, entry |-> cache[key]]
    ELSE IF cacheConfig.storage = "localStorage"
    THEN [err |-> NoErr,
          entry |-> IF hasWindow /\ key \in DOMAIN localStore THEN Parse(localStore[key]) ELSE NoEntry]
    ELSE IF cacheConfig.storage = "custom" /\ HasCustomStorage(cacheConfig)
    THEN CASE cacheConfig.customStorage = "throws" -> [err |-> StorageError, entry |-> NoEntry]
           [] cacheConfig.customStorage = "store" -> [err |-> NoErr, entry |-> MapGet(customStore, key)]
           [] OTHER -> [err |-> NoErr, entry |-> NoEntry]
    ELSE [err |-> NoErr, entry |-> NoEntry]

\* getFromCache, lines 471-495: the try block, the error it throws and the
\* entry it yields
BackendGet(key, cacheConfig) ==
    CASE cacheConfig.storage = "localStorage" ->
            [err |-> NoErr,
             entry |-> IF hasWindow /\ key \in DOMAIN localStore
                       THEN Parse(localStore[key]) ELSE NoEntry]
      [] cacheConfig.storage = "custom" ->
            IF ~HasCustomStorage(cacheConfig) THEN [err |-> NoErr, entry |-> NoEntry]
            ELSE CASE cacheConfig.customStorage = "throws" -> [err |-> StorageError, entry |-> NoEntry]
                   [] cacheConfig.customStorage = "store" -> [err |-> NoErr, entry |-> MapGet(customStore, key)]
                   [] OTHER -> [err |-> NoErr, entry |-> NoEntry]
      [] OTHER -> [err |-> NoErr, entry |-> MapGet(cache, key)]

\* the error getFromCache lets out
GetFromCacheThrown(key, cacheConfig) == Caught(BackendGet(key, cacheConfig).err)

GetFromCache(key, cacheConfig) ==
    LET got == BackendGet(key, cacheConfig)
    IN  IF got.err # NoErr THEN NoEntry ELSE got.entry

\* a bug: the comparison turned around
IsCacheValidFlipped(cachedResponse, ttl) == (now - cachedResponse.timestamp) > ttl

IsCacheValid(cachedResponse, ttl) == (now - cachedResponse.timestamp) < ttl

\* a bug: the lookup made without asking whether the policy enables the cache
CacheLookupIgnoresEnabled(endpoint, rc) ==
    IF IsCacheableRequest(endpoint, rc, config.cache)
    THEN LET key == GenerateCacheKey(BaseUrl \o endpoint, rc, config.cache)
             cachedResponse == GetFromCache(key, rc.cache)
         IN  IF cachedResponse # NoEntry
                /\ IsCacheValid(cachedResponse, NumOr(rc.cache, "ttl", DefaultTtl))
             THEN cachedResponse
             ELSE NoEntry
    ELSE NoEntry

\* request(), lines 166-171: the live entry the call is served from, or NoEntry
CacheLookup(endpoint, rc) ==
    IF Truthy(rc.cache, "enabled") /\ IsCacheableRequest(endpoint, rc, config.cache)
    THEN LET key == GenerateCacheKey(BaseUrl \o endpoint, rc, config.cache)
             cachedResponse == GetFromCache(key, rc.cache)
         IN  IF cachedResponse # NoEntry
                /\ IsCacheValid(cachedResponse, NumOr(rc.cache, "ttl", DefaultTtl))
             THEN cachedResponse
             ELSE NoEntry
    ELSE NoEntry

\* request(), lines 194-196: whether the response is written to the cache
CacheWrites(endpoint, rc, response) ==
    /\ Truthy(rc.cache, "enabled")
    /\ IsCacheableRequest(endpoint, rc, config.cache)
    /\ response.status >= 200 /\ response.status < 300

\* request(), lines 206-213
CachedData(response, rc) ==
    [data |-> response.data,
     timestamp |-> now,
     ttl |-> NumOr(rc.cache, "ttl", DefaultTtl),
     status |-> response.status,
     statusText |-> response.statusText]

(***************************************************************************)
(* Outcomes of a call.                                                     *)
(***************************************************************************)
\* the frame of a call that has ended: its locals are gone
Ended(q) ==
    [q EXCEPT !.pc = "done", !.lastResp = NoResp, !.err = NoErr, !.delay = 0,
              !.timer = 0 - 1, !.elapsed = FALSE]

Return(q, envelope) ==
    [Ended(q) EXCEPT !.returned = TRUE, !.response = envelope]

Raise(q, error) ==
    [Ended(q) EXCEPT !.raised = TRUE, !.thrown = error]

\* this.config.requestInterceptor applied to requestConfig (line 162): the
\* config it returns.  "pass" returns the config it was given, "rewrite" a
\* config with another Content-Type, one retry and the cache enabled.
RequestInterceptor(rc) ==
    IF config.requestInterceptor = "rewrite"
    THEN [rc EXCEPT !.headers = Spread(@, "Content-Type" :> "application/vnd.api+json"),
                    !.retry = Spread(@, [retries |-> 1]),
                    !.cache = Spread(@, [enabled |-> TRUE, ttl |-> TickMs])]
    ELSE rc

\* a bug: the VelloResponse built is returned, not the interceptor's
ResponseInterceptorResultDropped(envelope) == envelope

\* this.config.responseInterceptor applied to a VelloResponse (lines 183,
\* 254): the VelloResponse it returns.  "rewrite" returns one with other data.
ResponseInterceptorResult(envelope) ==
    CASE config.responseInterceptor = "rewrite" -> [envelope EXCEPT !.data = "mapped:" \o @]
      [] OTHER -> envelope

\* this.config.responseInterceptor applied to a VelloResponse: the error it
\* throws, or NoErr
ResponseInterceptor(q) ==
    IF config.responseInterceptor = "throw" THEN InterceptorError("responseInterceptor") ELSE NoErr

Intercepted(q) ==
    IF config.responseInterceptor = "none" THEN q
    ELSE [q EXCEPT !.respIcCalls = @ + 1]

(***************************************************************************)
(* executeRequestWithRetry.                                                *)
(***************************************************************************)
\* lines 223-236: a network attempt starts
\* a bug: the timer armed by the first attempt only
StartAttemptTimerOnce(q) ==
    [q EXCEPT !.pc = "fetch", !.attempts = @ + 1, !.lastResp = NoResp, !.err = NoErr,
              !.timer = IF q.attempts = 0 THEN q.rc.timeout ELSE 0 - 1, !.elapsed = FALSE,
              !.armed = IF q.attempts = 0 THEN @ \cup {q.attempts + 1} ELSE @]

StartAttempt(q) ==
    [q EXCEPT !.pc = "fetch", !.attempts = @ + 1, !.lastResp = NoResp, !.err = NoErr,
              !.timer = q.rc.timeout, !.elapsed = FALSE,
              !.armed = @ \cup {q.attempts + 1}]

\* a bug: the retry is started without returning its result (line 265), so the
\* catch block goes on to raise while the retry runs
CatchFallsThrough(q, error) ==
    LET seen == [q EXCEPT !.err = error, !.timer = 0 - 1,
                          !.condCalls = IF RetryConditionCalled(q.rc, q.retryCount) THEN @ + 1 ELSE @,
                          !.accepted = @ /\ RetryCondition(q.rc.retry.retryCondition, ToVelloError(error))]
    IN  IF ShouldRetryRequest(error, q.rc, q.retryCount)
        THEN [seen EXCEPT !.pc = "sleep", !.delay = CalculateRetryDelay(q.retryCount, error, q.rc),
                          !.raised = TRUE, !.thrown = error]
        ELSE [seen EXCEPT !.pc = "handleError"]

\* lines 259-268: the catch block up to the retry decision (a timer still
\* armed when fetch was rejected aborts a finished call and is left out)
Catch(q, error) ==
    LET seen == [q EXCEPT !.err = error, !.timer = 0 - 1,
                          !.condCalls = IF RetryConditionCalled(q.rc, q.retryCount) THEN @ + 1 ELSE @,
                          !.accepted = @ /\ RetryCondition(q.rc.retry.retryCondition, ToVelloError(error))]
    IN  IF ShouldRetryRequest(error, q.rc, q.retryCount)
        THEN [seen EXCEPT !.pc = "sleep", !.delay = CalculateRetryDelay(q.retryCount, error, q.rc)]
        ELSE [seen EXCEPT !.pc = "handleError"]

\* lines 239-257: what an attempt makes of the Response it received:
\* the error thrown inside the try block (NoErr when none) and the VelloResponse
Attempt(q, resp) ==
    IF ~Ok(resp)
    THEN [err |-> HandleErrorResponse(resp), envelope |-> NoEnvelope]
    ELSE LET parsed == ParseResponse(resp, q.rc.responseType)
         IN  IF parsed.err # NoErr
             THEN [err |-> parsed.err, envelope |-> NoEnvelope]
             ELSE [err |-> ResponseInterceptor(q),
                   envelope |-> ResponseInterceptorResult(
                                    [data |-> parsed.data, status |-> resp.status,
                                     statusText |-> resp.statusText, config |-> q.rc])]

\* lines 268-269: what the catch block throws after handleError
Thrown(error, interceptor) ==
    IF interceptor = "throw" THEN InterceptorError("errorInterceptor") ELSE error

(***************************************************************************)
(* request(), lines 165-191: the cache lookup, then on a hit the cached    *)
(* response, on a miss the first network attempt.                          *)
(***************************************************************************)
\* a bug: a call whose twin is in flight joins it instead of looking the cache
\* up and fetching
LookupCoalesced(q) ==
    IF \E s \in Reqs : req[s].pc \in {"fetch", "sleep"} /\ req[s].call = q.call
    THEN [q EXCEPT !.pc = "joined", !.lookedAt = now]
    ELSE StartAttempt([q EXCEPT !.lookedAt = now])

Lookup(q) ==
    LET looked == Truthy(q.rc.cache, "enabled")
                  /\ IsCacheableRequest(q.call.endpoint, q.rc, config.cache)
        entry == CacheLookup(q.call.endpoint, q.rc)
        key == GenerateCacheKey(BaseUrl \o q.call.endpoint, q.rc, config.cache)
        q1 == IF looked
              THEN [q EXCEPT !.lookedAt = now,
                             !.lookedKey = key,
                             !.found = GetFromCache(key, q.rc.cache),
                             !.keyPurged = key \in purged,
                             !.keyDeleted = key \in deleted,
                             !.getLog = IF q.rc.cache.storage = "custom" /\ HasCustomStorage(q.rc.cache)
                                        THEN Append(@, key) ELSE @]
              ELSE q
        keyErr == GenerateCacheKeyThrown(BaseUrl \o q.call.endpoint, q.rc, config.cache)
    IN  IF looked /\ keyErr # NoErr
        THEN Raise(q, keyErr)
        ELSE IF looked /\ GetFromCacheThrown(key, q.rc.cache) # NoErr
        THEN Raise(q1, GetFromCacheThrown(key, q.rc.cache))
        ELSE IF entry # NoEntry
        THEN LET response == [data |-> entry.data, status |-> entry.status,
                              statusText |-> entry.statusText \o CachedMarker,
                              config |-> q.rc]
                 q2 == Intercepted([q1 EXCEPT !.hit = TRUE])
             IN  IF ResponseInterceptor(q2) # NoErr
                 THEN Raise(q2, ResponseInterceptor(q2))
                 ELSE Return(q2, ResponseInterceptorResult(response))
        ELSE StartAttempt(q1)

\* setToCache, lines 504-527: the error its try block throws
BackendSetError(cacheConfig) ==
    IF /\ cacheConfig.storage = "custom" /\ HasCustomStorage(cacheConfig)
       /\ cacheConfig.customStorage = "throws"
    THEN StorageError ELSE NoErr

\* the error setToCache lets out
SetToCacheThrown(cacheConfig) == Caught(BackendSetError(cacheConfig))

\* a bug: a key already present keeps its entry
SetToCacheFirstWins(key, data, cacheConfig) ==
    /\ cache' = cache @@ (key :> data)
    /\ UNCHANGED <<localStore, customStore>>

\* setToCache: what it does to the backends
SetToCache(key, data, cacheConfig) ==
    CASE cacheConfig.storage = "localStorage" ->
            /\ localStore' = IF hasWindow THEN (key :> Stringify(data)) @@ localStore ELSE localStore
            /\ UNCHANGED <<cache, customStore>>
      [] cacheConfig.storage = "custom" ->
            /\ customStore' = IF HasCustomStorage(cacheConfig) /\ cacheConfig.customStorage = "store"
                               THEN (key :> data) @@ customStore ELSE customStore
            /\ UNCHANGED <<cache, localStore>>
      [] OTHER ->
            /\ cache' = (key :> data) @@ cache
            /\ UNCHANGED <<localStore, customStore>>

\* the frame after setToCache(key, data, cacheConfig): the call of a
\* caller-supplied set is on record (line 524: its third argument is cacheConfig.ttl)
Stored(q, key) ==
    [q EXCEPT !.wroteAt = now,
              !.wroteKey = key,
              !.setLog = IF q.rc.cache.storage = "custom" /\ HasCustomStorage(q.rc.cache)
                         THEN Append(@, [key |-> key, ttl |-> q.rc.cache.ttl]) ELSE @]

(***************************************************************************)
(* Actions.                                                                *)
(***************************************************************************)
Running == {s \in Reqs : req[s].pc \notin {"idle", "done"}}

\* a bug: a request served from the Map stores the entry anew, with the
\* time of the hit and the status text it returned
RequestTouches(r, call) ==
    /\ req[r].pc = "idle"
    /\ \A s \in Reqs : s < r => req[s].pc # "idle"
    /\ LET q == [IdleReq EXCEPT !.call = call,
                                !.rc = ResolveConfig(config, call),
                                !.after = {s \in Reqs : req[s].pc = "done"}]
           served == Lookup(q)
           key == GenerateCacheKey(BaseUrl \o call.endpoint, q.rc, config.cache)
       IN  /\ req' = [req EXCEPT ![r] = IF config.requestInterceptor = "none"
                                        THEN served
                                        ELSE [q EXCEPT !.pc = "intercept", !.reqIcCalls = @ + 1]]
           /\ cache' = IF config.requestInterceptor = "none" /\ served.hit /\ key \in DOMAIN cache
                       THEN [cache EXCEPT ![key] = [@ EXCEPT !.timestamp = now,
                                                             !.statusText = served.response.statusText]]
                       ELSE cache
    /\ UNCHANGED <<config, localStore, customStore, hasWindow, purged, deleted, now, ticks>>

\* a bug: every request first sweeps the expired entries out of the Map
RequestSweeps(r, call) ==
    /\ req[r].pc = "idle"
    /\ \A s \in Reqs : s < r => req[s].pc # "idle"
    /\ LET q == [IdleReq EXCEPT !.call = call,
                                !.rc = ResolveConfig(config, call),
                                !.after = {s \in Reqs : req[s].pc = "done"}]
       IN  req' = [req EXCEPT ![r] = IF config.requestInterceptor = "none"
                                     THEN Lookup(q)
                                     ELSE [q EXCEPT !.pc = "intercept", !.reqIcCalls = @ + 1]]
    /\ cache' = [k \in {j \in DOMAIN cache : IsCacheValid(cache[j], cache[j].ttl)} |-> cache[k]]
    /\ UNCHANGED <<config, localStore, customStore, hasWindow, purged, deleted, now, ticks>>

\* a verb operation is called: request() up to its first await
Request(r, call) ==
    /\ req[r].pc = "idle"
    /\ \A s \in Reqs : s < r => req[s].pc # "idle"
    /\ LET q == [IdleReq EXCEPT !.call = call,
                                !.rc = ResolveConfig(config, call),
                                !.after = {s \in Reqs : req[s].pc = "done"}]
       IN  req' = [req EXCEPT ![r] = IF config.requestInterceptor = "none"
                                     THEN Lookup(q)
                                     ELSE [q EXCEPT !.pc = "intercept", !.reqIcCalls = @ + 1]]
    /\ UNCHANGED <<config, cache, localStore, customStore, hasWindow, purged, deleted, now, ticks>>

\* a bug: the request goes on with the config the interceptor was given
RequestInterceptedStale(r) ==
    /\ req[r].pc = "intercept"
    /\ req' = [req EXCEPT ![r] = IF config.requestInterceptor = "throw"
                                 THEN Raise(req[r], InterceptorError("requestInterceptor"))
                                 ELSE Lookup([req[r] EXCEPT !.reqIcOut = RequestInterceptor(req[r].rc)])]
    /\ UNCHANGED <<config, cache, localStore, customStore, hasWindow, purged, deleted, now, ticks>>

\* the request interceptor's promise settles (line 162): its result is the
\* requestConfig from here on
RequestIntercepted(r) ==
    /\ req[r].pc = "intercept"
    /\ req' = [req EXCEPT ![r] = IF config.requestInterceptor = "throw"
                                 THEN Raise(req[r], InterceptorError("requestInterceptor"))
                                 ELSE Lookup([req[r] EXCEPT !.rc = RequestInterceptor(@),
                                                            !.reqIcOut = RequestInterceptor(req[r].rc)])]
    /\ UNCHANGED <<config, cache, localStore, customStore, hasWindow, purged, deleted, now, ticks>>

\* line 236-237: the frame holding the Response fetch resolved with
Got(q, outcome) ==
    LET first == outcome.status \in 200..299 /\ q.servedAt = 0
    IN  [q EXCEPT !.lastResp = outcome,
                  !.armed = @ \ {q.attempts},
                  !.served = IF first THEN outcome ELSE @,
                  !.servedAt = IF first THEN q.attempts ELSE @]

\* lines 239-257 and 194-219: the rest of the attempt once the Response is
\* there, and on success the cache write and the return
Received(r, got, outcome) ==
    LET q == req[r]
        res == Attempt(got, outcome)
    IN  IF res.err # NoErr
        THEN /\ req' = [req EXCEPT ![r] =
                           Catch(IF Ok(outcome) /\ res.err.src = "responseInterceptor"
                                 THEN Intercepted(got) ELSE got, res.err)]
             /\ UNCHANGED <<cache, localStore, customStore, purged, deleted>>
        ELSE IF /\ CacheWrites(q.call.endpoint, q.rc, res.envelope)
                /\ GenerateCacheKeyThrown(BaseUrl \o q.call.endpoint, q.rc, config.cache) # NoErr
        THEN /\ req' = [req EXCEPT ![r] =
                           Raise(Intercepted(got),
                                 GenerateCacheKeyThrown(BaseUrl \o q.call.endpoint, q.rc, config.cache))]
             /\ UNCHANGED <<cache, localStore, customStore, purged, deleted>>
        ELSE IF CacheWrites(q.call.endpoint, q.rc, res.envelope)
        THEN LET key == GenerateCacheKey(BaseUrl \o q.call.endpoint, q.rc, config.cache)
                 wrote == Stored(Intercepted(got), key)
             IN  /\ SetToCache(key, CachedData(res.envelope, q.rc), q.rc.cache)
                 /\ purged' = purged \ {key}
                 /\ deleted' = deleted \ {key}
                 /\ req' = [req EXCEPT ![r] =
                               IF SetToCacheThrown(q.rc.cache) # NoErr
                               THEN Raise(wrote, SetToCacheThrown(q.rc.cache))
                               ELSE Return(wrote, res.envelope)]
        ELSE /\ req' = [req EXCEPT ![r] = Return(Intercepted(got), res.envelope)]
             /\ UNCHANGED <<cache, localStore, customStore, purged, deleted>>

\* fetch settles (line 236): rejected, or with a Response whose body is read
\* without delay
FetchSettles(r, outcome) ==
    /\ req[r].pc = "fetch"
    /\ IF outcome \in TransportErrors
       THEN /\ req' = [req EXCEPT ![r] = Catch(req[r], outcome)]
            /\ UNCHANGED <<cache, localStore, customStore, purged, deleted>>
       ELSE Received(r, Got(req[r], outcome), outcome)
    /\ UNCHANGED <<config, hasWindow, now, ticks>>

\* fetch resolves with a Response (lines 236-237): the timer is cleared, the
\* body is still to be read
FetchResolves(r, outcome) ==
    /\ req[r].pc = "fetch"
    /\ outcome \in TransportResponses
    /\ req' = [req EXCEPT ![r] = [Got(req[r], outcome) EXCEPT !.pc = "body", !.timer = 0 - 1]]
    /\ UNCHANGED <<config, cache, localStore, customStore, hasWindow, purged, deleted, now, ticks>>

\* the body of the Response has been read (lines 239-257)
BodySettles(r) ==
    /\ req[r].pc = "body"
    /\ Received(r, req[r], req[r].lastResp)
    /\ UNCHANGED <<config, hasWindow, now, ticks>>

\* the delay of the attempt's timer has passed since the attempt started: an
\* armed timer fires (line 227) and controller.abort() rejects fetch
TimeoutElapses(r) ==
    /\ req[r].pc \in {"fetch", "body"}
    /\ ~req[r].elapsed
    /\ req' = [req EXCEPT ![r] = IF req[r].timer >= 0
                                 THEN Catch([req[r] EXCEPT !.elapsed = TRUE,
                                                           !.armed = @ \ {req[r].attempts}], AbortError)
                                 ELSE [req[r] EXCEPT !.elapsed = TRUE]]
    /\ UNCHANGED <<config, cache, localStore, customStore, hasWindow, purged, deleted, now, ticks>>

\* the attempt's timer fires first (line 227): controller.abort() rejects fetch
TimeoutFires(r) ==
    /\ req[r].pc = "fetch"
    /\ req' = [req EXCEPT ![r] = Catch([req[r] EXCEPT !.armed = @ \ {req[r].attempts}], AbortError)]
    /\ UNCHANGED <<config, cache, localStore, customStore, hasWindow, purged, deleted, now, ticks>>

\* a bug: one controller for the whole client, so that a timer firing late
\* aborts every fetch in flight
StaleTimerAborts(r, k) ==
    /\ k \in req[r].armed
    /\ ~(req[r].pc = "fetch" /\ k = req[r].attempts)
    /\ req' = [s \in Reqs |->
                 LET q == IF s = r THEN [req[s] EXCEPT !.armed = @ \ {k}, !.lateFires = @ + 1]
                          ELSE req[s]
                 IN  IF q.pc = "fetch" THEN Catch(q, AbortError) ELSE q]
    /\ UNCHANGED <<config, cache, localStore, customStore, hasWindow, purged, deleted, now, ticks>>

\* the timer of attempt k fires after fetch was rejected (line 237 was not
\* reached): controller.abort() on the controller of attempt k, whose fetch
\* has settled
StaleTimerFires(r, k) ==
    /\ k \in req[r].armed
    /\ ~(req[r].pc = "fetch" /\ k = req[r].attempts)
    /\ req' = [req EXCEPT ![r] = [@ EXCEPT !.armed = @ \ {k}, !.lateFires = @ + 1]]
    /\ UNCHANGED <<config, cache, localStore, customStore, hasWindow, purged, deleted, now, ticks>>

\* a bug: the promise of sleep is never resolved
WakeUpNever(r) ==
    /\ req[r].pc = "sleep"
    /\ UNCHANGED vars

\* sleep(delay) is over (lines 264-265): the next attempt
WakeUp(r) ==
    /\ req[r].pc = "sleep"
    /\ req' = [req EXCEPT ![r] = StartAttempt([req[r] EXCEPT !.retryCount = @ + 1])]
    /\ UNCHANGED <<config, cache, localStore, customStore, hasWindow, purged, deleted, now, ticks>>

\* a bug: the entry under the failed request's key is dropped
HandleErrorEvicts(r) ==
    /\ req[r].pc = "handleError"
    /\ LET q == req[r]
           key == GenerateCacheKey(BaseUrl \o q.call.endpoint, q.rc, config.cache)
       IN  /\ req' = [req EXCEPT ![r] = Raise([q EXCEPT !.final = q.err], q.err)]
           /\ cache' = [k \in DOMAIN cache \ {key} |-> cache[k]]
    /\ UNCHANGED <<config, localStore, customStore, hasWindow, purged, deleted, now, ticks>>

\* handleError and the throw (lines 268-269, 387-403)
HandleError(r) ==
    /\ req[r].pc = "handleError"
    /\ LET q == req[r]
           velloError == ToVelloError(q.err)
           seen == [q EXCEPT !.final = q.err]
           offered == IF config.errorInterceptor = "none" THEN seen
                      ELSE [seen EXCEPT !.errIcCalls = @ + 1, !.errIcArg = velloError]
       IN  req' = [req EXCEPT ![r] = Raise(offered, Thrown(q.err, config.errorInterceptor))]
    /\ UNCHANGED <<config, cache, localStore, customStore, hasWindow, purged, deleted, now, ticks>>

\* str.startsWith(prefix)
StartsWith(str, prefix) ==
    Len(str) >= Len(prefix) /\ SubSeq(str, 1, Len(prefix)) = prefix

\* map without the keys in gone
Without(map, gone) == [k \in DOMAIN map \ gone |-> map[k]]

\* this.config.cache?.storage === storage
InstanceStorage(storage) == "storage" \in DOMAIN config.cache /\ config.cache.storage = storage

\* clearStorageCache('localStorage'): removes the keys starting with 'vello:'
ClearStorageCache ==
    IF hasWindow
    THEN Without(localStore, {k \in DOMAIN localStore : StartsWith(k, "vello:")})
    ELSE localStore

\* clearCache(): the Map, then the backend the instance's policy names
ClearCache ==
    /\ cache' = Empty
    /\ localStore' = IF InstanceStorage("localStorage") THEN ClearStorageCache ELSE localStore
    /\ customStore' = IF /\ InstanceStorage("custom") /\ HasCustomStorage(config.cache)
                          /\ config.cache.customStorage = "store"
                       THEN Empty ELSE customStore
    /\ purged' = purged \cup DOMAIN cache \cup DOMAIN localStore \cup DOMAIN customStore
    /\ UNCHANGED <<config, hasWindow, deleted, now, ticks, req>>

\* getCacheStats()
GetCacheStats == [size |-> Cardinality(DOMAIN cache), keys |-> DOMAIN cache]

\* deleteCacheItem(key): the Map, then the backend the instance's policy
\* names.  Without a window, localStorage.removeItem is a ReferenceError
\* thrown after the Map's entry is gone.
DeleteCacheItem(key) ==
    /\ cache' = Without(cache, {key})
    /\ localStore' = IF InstanceStorage("localStorage") /\ hasWindow
                      THEN Without(localStore, {key}) ELSE localStore
    /\ customStore' = IF /\ InstanceStorage("custom") /\ HasCustomStorage(config.cache)
                          /\ config.cache.customStorage = "store"
                       THEN Without(customStore, {key}) ELSE customStore
    /\ deleted' = deleted \cup {key}
    /\ UNCHANGED <<config, hasWindow, purged, now, ticks, req>>

\* setCacheConfig, lines 102-104
SetCacheConfig(cacheConfig) ==
    /\ config' = [config EXCEPT !.cache = cacheConfig]
    /\ UNCHANGED <<cache, localStore, customStore, hasWindow, purged, deleted, now, ticks, req>>

(***************************************************************************)
(* The cache-less client (part_002).  Its executeRequestWithRetry and the  *)
(* methods below it are those of the caching client line for line          *)
(* (part_002 127-311, part_001 222-403): StartAttempt, Got, Attempt,       *)
(* Catch, WakeUp and HandleError stand for both.  Its request() resolves   *)
(* no cache policy, looks nothing up and stores nothing.                   *)
(***************************************************************************)
\* part_002, lines 102-118: options.cache is carried along by ...options
ResolveConfigLite(cfg, call) ==
    [method |-> call.method,
     timeout |-> IF call.timeout >= 0 THEN call.timeout ELSE NumOr(cfg, "timeout", DefaultTimeout),
     responseType |-> "json",
     headers |-> Spread(Spread(LibraryHeaders,
                               IF "defaultHeaders" \in DOMAIN cfg THEN cfg.defaultHeaders ELSE Empty),
                        call.headers),
     retry |-> Spread(Spread(LibraryRetry, cfg.retry), call.retry),
     cache |-> call.cache]

\* part_002, lines 101-124: request() up to the request interceptor or, when
\* there is none, the first network attempt
RequestLite(r, call) ==
    /\ req[r].pc = "idle"
    /\ LET q == [IdleReq EXCEPT !.call = call, !.rc = ResolveConfigLite(config, call)]
       IN  req' = [req EXCEPT ![r] = IF config.requestInterceptor = "none"
                                     THEN StartAttempt(q)
                                     ELSE [q EXCEPT !.pc = "intercept", !.reqIcCalls = @ + 1]]
    /\ UNCHANGED <<config, cache, localStore, customStore, hasWindow, purged, deleted, now, ticks>>

\* part_002, lines 121-124: the request interceptor's promise settles
RequestInterceptedLite(r) ==
    /\ req[r].pc = "intercept"
    /\ req' = [req EXCEPT ![r] = IF config.requestInterceptor = "throw"
                                 THEN Raise(req[r], InterceptorError("requestInterceptor"))
                                 ELSE StartAttempt([req[r] EXCEPT !.rc = RequestInterceptor(@),
                                                                  !.reqIcOut = RequestInterceptor(req[r].rc)])]
    /\ UNCHANGED <<config, cache, localStore, customStore, hasWindow, purged, deleted, now, ticks>>

\* a bug: the response returned without passing through the response
\* interceptor
ReceivedLiteUnintercepted(got, outcome) ==
    LET res == Attempt(got, outcome)
    IN  IF res.err # NoErr /\ res.err.src # "responseInterceptor"
        THEN Catch(got, res.err)
        ELSE Return(got, [data |-> ParseResponse(outcome, got.rc.responseType).data,
                          status |-> outcome.status, statusText |-> outcome.statusText,
                          config |-> got.rc])

\* part_002, lines 144-175: the rest of the attempt once the Response is
\* there: the return, or the catch block
ReceivedLite(got, outcome) ==
    LET res == Attempt(got, outcome)
    IN  IF res.err # NoErr
        THEN Catch(IF Ok(outcome) /\ res.err.src = "responseInterceptor"
                   THEN Intercepted(got) ELSE got, res.err)
        ELSE Return(Intercepted(got), res.envelope)

\* the frame with the delay it is about to sleep noted
Waiting(q) == IF q.pc = "sleep" THEN [q EXCEPT !.waits = Append(@, q.delay)] ELSE q

\* part_002, line 141: fetch settles, rejected or with a Response
FetchSettlesLite(r, outcome) ==
    /\ req[r].pc = "fetch"
    /\ LET q == [req[r] EXCEPT !.seen = Append(@, outcome)]
       IN  req' = [req EXCEPT ![r] = Waiting(IF outcome \in TransportErrors
                                             THEN Catch(q, outcome)
                                             ELSE ReceivedLite(Got(q, outcome), outcome))]
    /\ UNCHANGED <<config, cache, localStore, customStore, hasWindow, purged, deleted, now, ticks>>

\* part_002, line 132: the attempt's timer fires and aborts fetch
TimeoutFiresLite(r) ==
    /\ req[r].pc = "fetch"
    /\ req' = [req EXCEPT ![r] =
                   Waiting(Catch([req[r] EXCEPT !.armed = @ \ {req[r].attempts},
                                                !.seen = Append(@, AbortError)], AbortError))]
    /\ UNCHANGED <<config, cache, localStore, customStore, hasWindow, purged, deleted, now, ticks>>

\* time passes
Tick ==
    /\ ticks > 0
    /\ ticks' = ticks - 1
    /\ now' = now + TickMs
    /\ UNCHANGED <<config, cache, localStore, customStore, hasWindow, purged, deleted, req>>

(***************************************************************************)
(* Initial states: the client as constructed, the cache empty.             *)
(***************************************************************************)
InterceptorKinds == {"none", "pass", "throw"}

ClientConfig(retry, cacheCfg, reqIc, respIc, errIc) ==
    [retry |-> retry, cache |-> cacheCfg, requestInterceptor |-> reqIc,
     responseInterceptor |-> respIc, errorInterceptor |-> errIc]

InitWith(configs, windows) ==
    /\ config \in configs
    /\ cache = Empty
    /\ localStore = Empty
    /\ customStore = Empty
    /\ hasWindow \in windows
    /\ purged = {}
    /\ deleted = {}
    /\ now = 0
    /\ ticks = MaxTicks
    /\ req = [r \in Reqs |-> IdleReq]

(***************************************************************************)
(* Spec: a client with a cache policy, called NumReqs times by a caller    *)
(* that awaits each call before the next.                                  *)
(***************************************************************************)
CacheConfigs ==
    {ClientConfig(rt, ch, ic, ic, ic) :
        rt \in {Empty, [retries |-> 1]},
        ch \in {Empty,
                [enabled |-> TRUE, ttl |-> 2 * TickMs, storage |-> "memory"],
                [enabled |-> TRUE, ttl |-> 2 * TickMs, storage |-> "localStorage"]},
        ic \in {"none", "pass"}}

CacheCalls ==
    {Call(v, Empty, ch) :
        v \in Verbs, ch \in {Empty, [enabled |-> TRUE, ttl |-> TickMs], [enabled |-> FALSE]}}

CacheOutcomes == {Resp(200, "OK", "json"), Resp(404, "Not Found", "json"), FetchTypeError}

Init == InitWith(CacheConfigs, BOOLEAN)

Next ==
    \/ \E r \in Reqs, call \in CacheCalls : Running = {} /\ Request(r, call)
    \/ \E r \in Reqs : RequestIntercepted(r)
    \/ \E r \in Reqs, outcome \in CacheOutcomes : FetchSettles(r, outcome)
    \/ \E r \in Reqs : TimeoutFires(r)
    \/ \E r \in Reqs : WakeUp(r)
    \/ \E r \in Reqs : HandleError(r)
    \/ Tick

Spec == Init /\ [][Next]_vars

(***************************************************************************)
(* SpecRetry: a client with a retry policy and interceptors, called once,  *)
(* over a transport with every kind of outcome.                            *)
(***************************************************************************)
RetryPolicies ==
    {Empty}
    \cup {[retries |-> n] : n \in 0..MaxRetries}
    \cup {[retries |-> n, retryCondition |-> c] : n \in 1..MaxRetries, c \in {"always", "never"}}
    \cup {[retries |-> MaxRetries, retryDelay |-> d] : d \in {0, 500}}
    \cup {[retries |-> MaxRetries, retryDelay |-> 500, retryDelayFunction |-> "byCode"]}

RetryConfigs ==
    {ClientConfig(rt, ch, reqIc, respIc, errIc) :
        rt \in RetryPolicies,
        ch \in {Empty, [enabled |-> TRUE]},
        reqIc \in InterceptorKinds, respIc \in InterceptorKinds, errIc \in InterceptorKinds}

RetryCalls == {Call(v, rt, Empty) : v \in Verbs, rt \in {Empty, [retries |-> 1]}}

InitRetry == InitWith(RetryConfigs, {FALSE})

NextRetry ==
    \/ \E call \in RetryCalls : Request(1, call)
    \/ RequestIntercepted(1)
    \/ \E outcome \in TransportResponses \cup TransportErrors : FetchSettles(1, outcome)
    \/ TimeoutFires(1)
    \/ WakeUp(1)
    \/ HandleError(1)
    \/ Tick

SpecRetry == InitRetry /\ [][NextRetry]_vars

(***************************************************************************)
(* SpecStore: a client over each storage backend, called NumReqs times by  *)
(* a caller that awaits each call and clears the cache or deletes an item  *)
(* between calls.                                                          *)
(***************************************************************************)
CustomStorages == {"store", "absent", "throws"}

StoreConfigs ==
    {ClientConfig([retries |-> 1], ch, "none", "none", "none") :
        ch \in {Empty,
                [enabled |-> TRUE, ttl |-> 2 * TickMs, storage |-> "memory"],
                [enabled |-> TRUE, ttl |-> 2 * TickMs, storage |-> "localStorage"]}
               \cup {[enabled |-> TRUE, ttl |-> 2 * TickMs, storage |-> "custom", customStorage |-> c] :
                        c \in CustomStorages}}

StoreCalls ==
    {Call(v, Empty, ch) :
        v \in {[method |-> "GET", endpoint |-> "/users"]}, ch \in {Empty, [enabled |-> TRUE,
                storage |-> "localStorage"]}}

\* the keys the caller passes to deleteCacheItem: the key of the calls made
\* and the key of a call not made
StoreKeys ==
    {GenerateCacheKey(BaseUrl \o e, [method |-> "GET", headers |-> LibraryHeaders, cache |-> Empty], Empty) :
        e \in {"/users", "/posts"}}

InitStore == InitWith(StoreConfigs, BOOLEAN)

NextStore ==
    \/ \E r \in Reqs, call \in StoreCalls : Running = {} /\ Request(r, call)
    \/ \E r \in Reqs, outcome \in CacheOutcomes : FetchSettles(r, outcome)
    \/ \E r \in Reqs : TimeoutFires(r)
    \/ \E r \in Reqs : WakeUp(r)
    \/ \E r \in Reqs : HandleError(r)
    \/ Running = {} /\ ClearCache
    \/ \E key \in StoreKeys : Running = {} /\ DeleteCacheItem(key)
    \/ Tick

SpecStore == InitStore /\ [][NextStore]_vars

(***************************************************************************)
(* SpecPolicy: a client with each eligibility policy, called NumReqs times *)
(* with each method.                                                       *)
(***************************************************************************)
PolicyConfigs ==
    {ClientConfig(Empty, ch, "none", "none", "none") :
        ch \in {[enabled |-> TRUE],
                [enabled |-> TRUE, methods |-> {"POST"}],
                [enabled |-> TRUE, methods |-> {"PUT"}],
                [enabled |-> TRUE, allowUnsafeMethods |-> TRUE],
                [enabled |-> TRUE, safePaths |-> {"/reports"}],
                [enabled |-> TRUE, safePaths |-> {"/ord"}]}}

PolicyCalls == {Call(v, Empty, Empty) : v \in {[method |-> "GET", endpoint |-> "/users"],
        [method |-> "POST", endpoint |-> "/orders"], [method |-> "POST", endpoint |-> "/search"],
        [method |-> "POST", endpoint |-> "/api/listings"], [method |-> "POST",
        endpoint |-> "/graphql", headers |-> "Content-Type" :> "application/graphql"],
        [method |-> "PUT", endpoint |-> "/users"], [method |-> "PATCH", endpoint |-> "/users"],
        [method |-> "DELETE", endpoint |-> "/users"]}}

PolicyOutcomes == {Resp(200, "OK", "json"), Resp(404, "Not Found", "json")}

InitPolicy == InitWith(PolicyConfigs, {FALSE})

NextPolicy ==
    \/ \E r \in Reqs, call \in PolicyCalls : Running = {} /\ Request(r, call)
    \/ \E r \in Reqs, outcome \in PolicyOutcomes : FetchSettles(r, outcome)
    \/ \E r \in Reqs : TimeoutFires(r)
    \/ \E r \in Reqs : HandleError(r)
    \/ Tick

SpecPolicy == InitPolicy /\ [][NextPolicy]_vars

(***************************************************************************)
(* SpecTimeout: a client with and without a timeout of its own, called     *)
(* with and without a per-call timeout; the Response and its body arrive   *)
(* separately, and the timer's delay may pass at any point of an attempt.  *)
(***************************************************************************)
TimeoutConfigs ==
    {Spread(ClientConfig(rt, Empty, "none", "none", "none"), tm) :
        rt \in {Empty, [retries |-> 1]}, tm \in {Empty, [timeout |-> 2 * TickMs]}}

TimeoutCalls == {Call(v, Empty, Empty) : v \in {[method |-> "GET", endpoint |-> "/users"],
        [method |-> "GET", endpoint |-> "/users", timeout |-> TickMs]}}

InitTimeout == InitWith(TimeoutConfigs, {FALSE})

NextTimeout ==
    \/ \E r \in Reqs, call \in TimeoutCalls : Running = {} /\ Request(r, call)
    \/ \E r \in Reqs, outcome \in TransportErrors : FetchSettles(r, outcome)
    \/ \E r \in Reqs, outcome \in TransportResponses : FetchResolves(r, outcome)
    \/ \E r \in Reqs : BodySettles(r)
    \/ \E r \in Reqs : TimeoutElapses(r)
    \/ \E r \in Reqs : WakeUp(r)
    \/ \E r \in Reqs : HandleError(r)

SpecTimeout == InitTimeout /\ [][NextTimeout]_vars

(***************************************************************************)
(* SpecConcurrent: a client with an in-memory cache whose caller does not  *)
(* await a call before making the next: the calls overlap, each await of   *)
(* request() being a point where another call runs.                        *)
(***************************************************************************)
ConcurrentConfigs ==
    {ClientConfig(rt, [enabled |-> TRUE, ttl |-> 2 * TickMs, storage |-> "memory"], ic, "none", "none") :
        rt \in {Empty, [retries |-> 1]}, ic \in {"none", "pass"}}

ConcurrentCalls == {Call(v, Empty, Empty) : v \in {[method |-> "GET", endpoint |-> "/users"],
        [method |-> "GET", endpoint |-> "/posts"]}}

ConcurrentOutcomes == {Resp(200, "OK", "json"), Resp(201, "Created", "json"), FetchTypeError}

InitConcurrent == InitWith(ConcurrentConfigs, {FALSE})

NextConcurrent ==
    \/ \E r \in Reqs, call \in ConcurrentCalls : Request(r, call)
    \/ \E r \in Reqs : RequestIntercepted(r)
    \/ \E r \in Reqs, outcome \in ConcurrentOutcomes : FetchSettles(r, outcome)
    \/ \E r \in Reqs : WakeUp(r)
    \/ \E r \in Reqs : HandleError(r)
    \/ Tick

SpecConcurrent == InitConcurrent /\ [][NextConcurrent]_vars

(***************************************************************************)
(* SpecResolve: a client with default headers, a retry policy and a cache  *)
(* policy of its own, called once with headers and policies of the call.   *)
(***************************************************************************)
ResolveHeaders ==
    {Empty,
     "X-Trace" :> "instance" @@ "Authorization" :> "token",
     "Content-Type" :> "text/plain"}

ResolveRetries == {Empty, [retries |-> MaxRetries], [retryDelay |-> 500], [retries |-> 1, retryDelay |-> 250]}

ResolveCaches ==
    {Empty, [enabled |-> TRUE], [ttl |-> TickMs], [enabled |-> TRUE, ttl |-> 2 * TickMs,
            storage |-> "localStorage"]}

ResolveConfigs ==
    {Spread(ClientConfig(rt, ch, "none", "none", "none"), hd) :
        rt \in ResolveRetries, ch \in ResolveCaches,
        hd \in {Empty} \cup {[defaultHeaders |-> h] : h \in ResolveHeaders \ {Empty}}}

ResolveCalls ==
    {Call(v, rt, ch) :
        v \in {[method |-> "GET", endpoint |-> "/users"], [method |-> "GET", endpoint |-> "/users",
                headers |-> "X-Trace" :> "call"], [method |-> "GET", endpoint |-> "/users",
                headers |-> "Content-Type" :> "application/xml"]},
        rt \in {Empty, [retries |-> 1], [retryDelay |-> 500]},
        ch \in {Empty, [enabled |-> FALSE], [enabled |-> TRUE, storage |-> "memory"]}}

InitResolve == InitWith(ResolveConfigs, {FALSE})

NextResolve ==
    \/ \E call \in ResolveCalls : Request(1, call)
    \/ \E outcome \in CacheOutcomes : FetchSettles(1, outcome)
    \/ WakeUp(1)
    \/ HandleError(1)

SpecResolve == InitResolve /\ [][NextResolve]_vars

(***************************************************************************)
(* SpecLive: SpecRetry's client, called once, with the Response and its    *)
(* body arriving separately, under fair progress: a pending promise of the *)
(* transport, of a timer or of an interceptor settles in the end.          *)
(***************************************************************************)
InitLive == InitWith({ClientConfig(rt, Empty, reqIc, respIc, errIc) : rt \in RetryPolicies,
        reqIc \in InterceptorKinds, respIc \in {"none", "throw"}, errIc \in {"none", "throw"}},
        {FALSE})

NextLive ==
    \/ \E call \in {Call(v, rt, Empty) : v \in {[method |-> "GET", endpoint |-> "/users"]},
            rt \in {Empty, [retries |-> 1]}} : Request(1, call)
    \/ RequestIntercepted(1)
    \/ \E outcome \in TransportErrors : FetchSettles(1, outcome)
    \/ \E outcome \in TransportResponses : FetchResolves(1, outcome)
    \/ BodySettles(1)
    \/ TimeoutElapses(1)
    \/ WakeUp(1)
    \/ HandleError(1)

\* the event loop runs every callback that is due: the interceptor's promise
\* (line 162), the attempt's timer (line 227), the body read (lines 240-243),
\* the timer of sleep (line 310), handleError (line 268)
FairLive ==
    /\ WF_vars(RequestIntercepted(1))
    /\ WF_vars(TimeoutElapses(1))
    /\ WF_vars(BodySettles(1))
    /\ WF_vars(WakeUp(1))
    /\ WF_vars(HandleError(1))

SpecLive == InitLive /\ [][NextLive]_vars /\ FairLive

(***************************************************************************)
(* SpecIntercept: a client with a request and a response interceptor of    *)
(* each kind, called NumReqs times by a caller that awaits each call.      *)
(***************************************************************************)
RewriteKinds == {"none", "pass", "rewrite", "throw"}

InitIntercept == InitWith({ClientConfig(rt, ch, reqIc, respIc, "none") : rt \in {Empty,
        [retries |-> MaxRetries]}, ch \in {Empty, [enabled |-> TRUE, ttl |-> 2 * TickMs]},
        reqIc \in RewriteKinds, respIc \in RewriteKinds}, {FALSE})

NextIntercept ==
    \/ \E r \in Reqs, call \in {Call(v, Empty, Empty) : v \in Verbs} : Running = {} /\ Request(r, call)
    \/ \E r \in Reqs : RequestIntercepted(r)
    \/ \E r \in Reqs, outcome \in CacheOutcomes : FetchSettles(r, outcome)
    \/ \E r \in Reqs : WakeUp(r)
    \/ \E r \in Reqs : HandleError(r)
    \/ Tick

SpecIntercept == InitIntercept /\ [][NextIntercept]_vars

(***************************************************************************)
(* SpecKey: a client with an in-memory cache whose policy has no key, a    *)
(* fixed key or a key function, called NumReqs times, with and without a   *)
(* key of the call, by a caller that awaits each call.                     *)
(***************************************************************************)
FixedKey == "important-user-1"

KeyConfigs ==
    {ClientConfig(Empty, ch, "none", "none", "none") :
        ch \in {[enabled |-> TRUE, ttl |-> 2 * TickMs],
                [enabled |-> TRUE, ttl |-> 2 * TickMs, key |-> KeyString(FixedKey)],
                [enabled |-> TRUE, ttl |-> 2 * TickMs, key |-> KeyFunctionOfUrl]}}

KeyCalls ==
    {Call(v, Empty, ch) :
        v \in {[method |-> "GET", endpoint |-> "/users/1"], [method |-> "GET",
                endpoint |-> "/posts/1"], [method |-> "POST", endpoint |-> "/search"]},
        ch \in {Empty, [key |-> KeyString(FixedKey)], [key |-> KeyString(FixedKey), ttl |-> TickMs],
                [key |-> KeyFunctionOfUrl]}}

InitKey == InitWith(KeyConfigs, {FALSE})

NextKey ==
    \/ \E r \in Reqs, call \in KeyCalls : Running = {} /\ Request(r, call)
    \/ \E r \in Reqs, outcome \in ConcurrentOutcomes : FetchSettles(r, outcome)
    \/ \E r \in Reqs : HandleError(r)
    \/ Tick

SpecKey == InitKey /\ [][NextKey]_vars

(***************************************************************************)
(* SpecCancel: a client with retries whose calls overlap, over a transport *)
(* that rejects or answers; the timer of a rejected attempt stays armed    *)
(* and fires at any later time.                                            *)
(***************************************************************************)
InitCancel == InitWith({ClientConfig(rt, Empty, "none", "none",
        "none") : rt \in {[retries |-> n] : n \in 1..MaxRetries}}, {FALSE})

NextCancel ==
    \/ \E r \in Reqs, call \in {Call(v, Empty, Empty) : v \in {[method |-> "GET",
            endpoint |-> "/users"]}} : Request(r, call)
    \/ \E r \in Reqs, outcome \in {Resp(200, "OK", "json"), Resp(500, "Internal Server Error",
            "json"), FetchTypeError} : FetchSettles(r, outcome)
    \/ \E r \in Reqs : TimeoutFires(r)
    \/ \E r \in Reqs, k \in 1..(MaxRetries + 1) : StaleTimerFires(r, k)
    \/ \E r \in Reqs : WakeUp(r)
    \/ \E r \in Reqs : HandleError(r)

SpecCancel == InitCancel /\ [][NextCancel]_vars

(***************************************************************************)
(* SpecMutate: a client with an in-memory cache whose caller replaces the  *)
(* cache policy with setCacheConfig at any time, also while a call is in   *)
(* flight.                                                                 *)
(***************************************************************************)
MutateCaches ==
    {[enabled |-> TRUE],
     [enabled |-> TRUE, key |-> [typeof |-> "string", value |-> "important-user-1"]],
     [enabled |-> TRUE, allowUnsafeMethods |-> TRUE],
     [enabled |-> TRUE, safePaths |-> {"/reports"}]}

InitMutate == InitWith({ClientConfig(Empty, ch, "none", "none", "none") : ch \in MutateCaches}, {FALSE})

NextMutate ==
    \/ \E r \in Reqs, call \in {Call(v, Empty, Empty) : v \in {[method |-> "GET",
            endpoint |-> "/users"], [method |-> "POST", endpoint |-> "/orders"], [method |-> "POST",
            endpoint |-> "/search"]}} : Running = {} /\ Request(r, call)
    \/ \E cacheConfig \in MutateCaches : SetCacheConfig(cacheConfig)
    \/ \E r \in Reqs, outcome \in PolicyOutcomes : FetchSettles(r, outcome)
    \/ \E r \in Reqs : HandleError(r)
    \/ Tick

SpecMutate == InitMutate /\ [][NextMutate]_vars

(***************************************************************************)
(* SpecTtl: a client with an in-memory cache whose policy, or whose        *)
(* call's policy, has a TTL of 0, called NumReqs times by a caller that    *)
(* awaits each call.                                                       *)
(***************************************************************************)
InitTtl == InitWith({ClientConfig(Empty, ch, "none", "none", "none") : ch \in {[enabled |-> TRUE],
        [enabled |-> TRUE, ttl |-> 0], [enabled |-> TRUE, ttl |-> TickMs]}}, {FALSE})

NextTtl ==
    \/ \E r \in Reqs, call \in {Call(v, Empty, ch) : v \in Verbs, ch \in {Empty, [ttl |-> 0],
            [ttl |-> TickMs]}} : Running = {} /\ Request(r, call)
    \/ \E r \in Reqs, outcome \in PolicyOutcomes : FetchSettles(r, outcome)
    \/ \E r \in Reqs : HandleError(r)
    \/ Tick

SpecTtl == InitTtl /\ [][NextTtl]_vars

(***************************************************************************)
(* SpecKeyFail: a client with an in-memory cache whose key cannot always   *)
(* be derived: a key function that throws, in the instance policy, in the  *)
(* call's or installed with setCacheConfig while a call is in flight, and  *)
(* a URL the default key cannot encode.                                    *)
(***************************************************************************)
KeyFailCaches ==
    {[enabled |-> TRUE], [enabled |-> TRUE, key |-> KeyFunctionOfUrl],
     [enabled |-> TRUE, key |-> KeyFunctionThrows]}

InitKeyFail == InitWith({ClientConfig(Empty, ch, "none", "none", "none") : ch \in KeyFailCaches}, {FALSE})

NextKeyFail ==
    \/ \E r \in Reqs, call \in {Call(v, Empty, ch) : v \in {[method |-> "GET",
            endpoint |-> "/users/1"], [method |-> "GET", endpoint |-> "/users/" \o LoneSurrogate],
            [method |-> "POST", endpoint |-> "/orders"]}, ch \in {Empty,
            [key |-> KeyFunctionThrows]}} : Running = {} /\ Request(r, call)
    \/ \E cacheConfig \in KeyFailCaches : SetCacheConfig(cacheConfig)
    \/ \E r \in Reqs, outcome \in PolicyOutcomes : FetchSettles(r, outcome)
    \/ \E r \in Reqs : HandleError(r)
    \/ Tick

SpecKeyFail == InitKeyFail /\ [][NextKeyFail]_vars

(***************************************************************************)
(* SpecVariants: the same call made on a cache-less client (frame 1) and   *)
(* on a caching client (frame 2) with the same configuration, the cache    *)
(* disabled, over a transport that does to each attempt of the second what *)
(* it did to that attempt of the first.                                    *)
(***************************************************************************)
LiteClient == 1

CachingClient == 2

VariantOutcomes ==
    {Resp(200, "OK", "json"), Resp(200, "OK", "text"), Resp(404, "Not Found", "json"),
     Resp(500, "Internal Server Error", "json"), FetchTypeError}

\* the transport does to the caching client's attempt what it did to that
\* attempt of the cache-less client
SameTransport(outcome) ==
    /\ req[CachingClient].attempts \in 1..Len(req[LiteClient].seen)
    /\ req[LiteClient].seen[req[CachingClient].attempts] = outcome

InitVariants == InitWith({ClientConfig(rt, ch, reqIc, respIc, errIc) : rt \in {Empty,
        [retries |-> 1], [retries |-> MaxRetries, retryCondition |-> "always"],
        [retries |-> MaxRetries, retryDelay |-> 500, retryDelayFunction |-> "byCode"]},
        ch \in {Empty, [enabled |-> FALSE, key |-> KeyFunctionThrows]}, reqIc \in InterceptorKinds,
        respIc \in RewriteKinds, errIc \in {"none", "pass"}}, {FALSE})

NextVariants ==
    \/ \E call \in {Call(v, rt, ch) : v \in Verbs, rt \in {Empty, [retries |-> 1]}, ch \in {Empty,
            [enabled |-> FALSE]}} : RequestLite(LiteClient, call)
    \/ RequestInterceptedLite(LiteClient)
    \/ \E outcome \in VariantOutcomes : FetchSettlesLite(LiteClient, outcome)
    \/ TimeoutFiresLite(LiteClient)
    \/ req[LiteClient].pc # "idle" /\ Request(CachingClient, req[LiteClient].call)
    \/ RequestIntercepted(CachingClient)
    \/ \E outcome \in VariantOutcomes : SameTransport(outcome) /\ FetchSettles(CachingClient, outcome)
    \/ SameTransport(AbortError) /\ TimeoutFires(CachingClient)
    \/ \E r \in {LiteClient, CachingClient} : WakeUp(r)
    \/ \E r \in {LiteClient, CachingClient} : HandleError(r)

SpecVariants == InitVariants /\ [][NextVariants]_vars

(***************************************************************************)
(* Properties.                                                             *)
(***************************************************************************)
Started(q) == q.pc # "idle"

Done(q) == q.pc = "done"

\* C1: a call yields at most one outcome, a VelloResponse returned or an error
\* raised, never both, and none while it is still running.
C1_AtMostOneOutcome ==
    \A r \in Reqs :
        /\ ~(req[r].returned /\ req[r].raised)
        /\ (req[r].returned \/ req[r].raised) => Done(req[r])

C1_Witness ==
    \E r, s \in Reqs :
        /\ req[r].returned /\ Done(req[r])
        /\ req[s].raised /\ Done(req[s]) /\ req[s].attempts = 2

\* C2: with retries = n, a call whose every attempt fails with an error the
\* retry predicate accepts makes exactly n+1 network attempts and then raises.
C2_ExactlyNPlusOneAttempts ==
    \A r \in Reqs :
        LET q == req[r]
        IN  (Started(q) /\ q.attempts >= 1 /\ q.accepted /\ ~q.returned
             /\ q.pc \in {"handleError", "done"})
            => /\ q.attempts = q.rc.retry.retries + 1
               /\ Done(q) => q.raised

C2_Witness ==
    \E r \in Reqs :
        LET q == req[r]
        IN  /\ Done(q) /\ q.raised /\ q.accepted
            /\ q.rc.retry.retries = MaxRetries
            /\ q.attempts = MaxRetries + 1

Repeats(r1, r2) ==
    LET q1 == req[r1]
        q2 == req[r2]
    IN  /\ r1 # r2 /\ r1 \in q2.after
        /\ q1.call = q2.call /\ q2.call.method = "GET"
        /\ Truthy(q2.rc.cache, "enabled")
        /\ q1.returned /\ ~q1.hit /\ q1.wroteAt >= 0
        /\ q2.lookedAt >= 0
        /\ q2.lookedAt - q1.wroteAt < q2.rc.cache.ttl

ServedFromCache(r1, r2) ==
    /\ req[r2].attempts = 0
    /\ Done(req[r2]) /\ req[r2].returned
    /\ req[r2].response.statusText = req[r1].response.statusText \o CachedMarker

C5_DisabledCacheUntouched ==
    \A r \in Reqs :
        LET q == req[r]
        IN  (q.pc \notin {"idle", "intercept"} /\ ~Truthy(q.rc.cache, "enabled"))
            => /\ ~q.hit /\ q.lookedAt < 0 /\ q.wroteAt < 0 /\ q.found = NoEntry
               /\ q.attempts >= 1
               /\ Done(q) => q.attempts = q.retryCount + 1
               /\ (Done(q) /\ q.rc.retry.retries = 0) => q.attempts = 1

C5_Witness ==
    \E r1, r2 \in Reqs :
        /\ r1 # r2 /\ req[r1].call = req[r2].call
        /\ Truthy(config.cache, "enabled")
        /\ Done(req[r1]) /\ Done(req[r2])
        /\ ~Truthy(req[r1].rc.cache, "enabled") /\ ~Truthy(req[r2].rc.cache, "enabled")
        /\ req[r1].returned /\ req[r2].returned
        /\ req[r1].attempts = 1 /\ req[r2].attempts = 1

\* C6: an entry read by a lookup is served as a hit iff now - entry.timestamp
\* < entry.ttl, entry.ttl being the TTL stored in the entry.
C6_ValidIffWithinEntryTtl ==
    \A r \in Reqs :
        LET q == req[r]
        IN  (q.lookedAt >= 0 /\ q.found # NoEntry)
            => (q.hit <=> (q.lookedAt - q.found.timestamp < q.found.ttl))

\* a lookup that served an entry older than the TTL stored in it
C6_Witness ==
    \E r \in Reqs :
        /\ req[r].hit /\ req[r].returned
        /\ req[r].lookedAt - req[r].found.timestamp >= req[r].found.ttl

StatusCodes == {ToString(resp.status) : resp \in TransportResponses}

ClientErrorCodes == {"TIMEOUT", "NETWORK_ERROR", "UNKNOWN"} \cup StatusCodes

\* C7: the value raised by a call that fails in the retry pipeline is a
\* ClientError whose code is TIMEOUT when the last attempt was cancelled by its
\* timer, NETWORK_ERROR when no server was reached, the status as a string for
\* a non-2xx response, UNKNOWN otherwise.
C7_RaisedIsClientError ==
    \A r \in Reqs :
        LET q == req[r]
        IN  (q.raised /\ q.final # NoErr /\ config.errorInterceptor # "throw")
            => /\ q.thrown.name = "VelloError"
               /\ q.thrown.code \in ClientErrorCodes
               /\ q.final.src = "timer" => q.thrown.code = "TIMEOUT"
               /\ (q.final.src = "fetch" /\ q.final.fetchMsg) => q.thrown.code = "NETWORK_ERROR"
               /\ q.final.src = "http" => q.thrown.code = ToString(q.final.status)

\* a call whose last attempt timed out raised the AbortError itself
C7_Witness ==
    \E r \in Reqs :
        /\ req[r].raised /\ req[r].final.src = "timer"
        /\ req[r].thrown.name = "AbortError" /\ req[r].thrown.code = ""

\* C8: a failing call with an error interceptor configured invokes it exactly
\* once, with the final error, after the last retry decision; it is not
\* invoked while a retry is still to come, nor for a call that returns.
C8_ErrorInterceptorOnce ==
    \A r \in Reqs :
        LET q == req[r]
        IN  /\ (q.raised /\ config.errorInterceptor # "none")
               => (q.errIcCalls = 1 /\ q.errIcArg = ToVelloError(q.final))
            /\ q.returned => q.errIcCalls = 0
            /\ q.pc \in {"intercept", "fetch", "sleep", "handleError"} => q.errIcCalls = 0

\* a call failed with the error interceptor configured and never invoked
C8_Witness ==
    \E r \in Reqs :
        /\ req[r].raised /\ config.errorInterceptor # "none"
        /\ req[r].errIcCalls = 0

\* C9: whatever the error interceptor does, the call fails with the final
\* error the pipeline produced.
C9_InterceptorCannotAlter ==
    \A r \in Reqs :
        LET q == req[r]
        IN  q.errIcCalls > 0 => (Done(q) /\ q.raised /\ ~q.returned /\ q.thrown = q.final)

\* the interceptor threw and its error replaced the pipeline's
C9_Witness ==
    \E r \in Reqs :
        /\ req[r].raised /\ req[r].errIcCalls = 1
        /\ req[r].thrown.src = "errorInterceptor" /\ req[r].final.src = "http"

\* C10: an attempt that receives a response with a status outside [200,300)
\* fails with a ClientError whose code is the status as a string and whose
\* response carries that status; no envelope is returned for it.
C10_StatusErrorCode ==
    \A r \in Reqs :
        LET q == req[r]
        IN  (q.pc \in {"sleep", "handleError"} /\ q.lastResp # NoResp /\ ~(q.lastResp.status \in 200..299))
            => /\ q.err.name = "VelloError"
               /\ q.err.code = ToString(q.lastResp.status)
               /\ q.err.status = q.lastResp.status
               /\ ~q.returned

\* a 404 whose body is not JSON ended the attempt with a TypeError
C10_Witness ==
    \E r \in Reqs :
        /\ req[r].pc = "handleError" /\ req[r].lastResp.status = 404
        /\ req[r].err.name = "TypeError"

\* C11: the default retry predicate is true exactly for the codes
\* NETWORK_ERROR and TIMEOUT and for errors with a response of status >= 500:
\* with retries left a failed attempt is retried iff its error is one of
\* these; a 4xx and an UNKNOWN error without a response are not retried.
C11_DefaultPredicate ==
    \A r \in Reqs :
        LET q == req[r]
            velloError == ToVelloError(q.err)
        IN  (/\ q.pc \in {"sleep", "handleError"}
             /\ q.rc.retry.retryCondition = "default"
             /\ q.retryCount < q.rc.retry.retries)
            => /\ (q.pc = "sleep") <=> (\/ velloError.code \in {"NETWORK_ERROR", "TIMEOUT"}
                                        \/ velloError.status >= 500)
               /\ velloError.status \in 400..499 => q.pc = "handleError"
               /\ (velloError.code = "UNKNOWN" /\ velloError.status = 0) => q.pc = "handleError"

\* a 404 is given up with a retry left, after an earlier attempt was retried
C11_Witness ==
    \E r \in Reqs :
        /\ req[r].pc = "handleError" /\ req[r].rc.retry.retryCondition = "default"
        /\ req[r].err.status = 404 /\ req[r].retryCount = 1 /\ req[r].rc.retry.retries = 2

\* the call's resolved policy stores in a caller-supplied backend whose get
\* and set throw
BackendThrows(q) ==
    /\ Started(q) /\ Truthy(q.rc.cache, "enabled")
    /\ q.rc.cache.storage = "custom" /\ HasCustomStorage(q.rc.cache)
    /\ q.rc.cache.customStorage = "throws"

\* C12: a failure of the storage backend never fails the request: when the
\* backend's read throws the lookup is a miss and the request goes to the
\* network; when its write throws after a 2xx response the call returns that
\* response; no call raises the backend's error.
C12_StorageFailureAbsorbed ==
    \A r \in Reqs :
        LET q == req[r]
        IN  /\ q.thrown.src # "storage"
            /\ (BackendThrows(q) /\ Len(q.getLog) > 0)
               => (~q.hit /\ q.found = NoEntry /\ q.attempts >= 1)
            /\ (BackendThrows(q) /\ q.servedAt > 0)
               => /\ Done(q) /\ q.returned /\ ~q.raised
                  /\ Len(q.setLog) = 1
                  /\ q.response.status = q.served.status

\* a call returned a 2xx response after the backend threw in get and in set
C12_Witness ==
    \E r \in Reqs :
        /\ BackendThrows(req[r]) /\ Done(req[r]) /\ req[r].returned
        /\ Len(req[r].getLog) = 1 /\ Len(req[r].setLog) = 1
        /\ req[r].response.status = 200

\* C13: only successful responses are cached: no step of a call other than
\* the return of its network response creates, replaces or deletes an entry
\* of any backend, and a call that ends in an error has written nothing, so
\* the entries cached before it are still there.
C13_OnlySuccessCached ==
    [][\A r \in Reqs :
          (req'[r] # req[r] /\ ~(req'[r].returned /\ ~req'[r].hit))
          => /\ <<cache, localStore, customStore>>' = <<cache, localStore, customStore>>
             /\ req'[r].raised => req'[r].wroteAt < 0]_vars

\* a call missed an entry too old for its own ttl, failed after a retry, and
\* the entry is still in the Map
C13_Witness ==
    \E r \in Reqs :
        LET q == req[r]
            key == GenerateCacheKey(BaseUrl \o q.call.endpoint, q.rc, config.cache)
        IN  /\ Done(q) /\ q.raised /\ q.attempts = 2
            /\ q.found # NoEntry /\ ~q.hit
            /\ key \in DOMAIN cache /\ cache[key] = q.found

\* the call has passed the cache lookup of request() with the cache enabled
PastLookup(q) == q.pc \notin {"idle", "intercept"} /\ Truthy(q.rc.cache, "enabled")

\* the method is listed in policy.methods
Listed(q) == "methods" \in DOMAIN q.rc.cache /\ q.rc.method \in q.rc.cache.methods

\* the call was treated as eligible: looked up, and stored when its network
\* response was returned
TreatedEligible(q) == q.lookedAt >= 0 /\ ((q.returned /\ ~q.hit) => q.wroteAt >= 0)

TreatedIneligible(q) == q.lookedAt < 0 /\ q.wroteAt < 0 /\ ~q.hit

\* C14: eligibility in order, first match wins: a method listed in
\* policy.methods is eligible; GET and HEAD are eligible also when
\* policy.methods does not list them; allowUnsafeMethods = true makes every
\* method eligible; PUT, PATCH and DELETE are otherwise never looked up nor
\* stored.
C14_EligibilityOrder ==
    \A r \in Reqs :
        LET q == req[r]
        IN  PastLookup(q)
            => /\ Listed(q) => TreatedEligible(q)
               /\ q.rc.method \in {"GET", "HEAD"} => TreatedEligible(q)
               /\ Truthy(q.rc.cache, "allowUnsafeMethods") => TreatedEligible(q)
               /\ (/\ q.rc.method \in {"PUT", "PATCH", "DELETE"}
                   /\ ~Listed(q) /\ ~Truthy(q.rc.cache, "allowUnsafeMethods"))
                  => TreatedIneligible(q)

\* a GET is served from the cache under a policy whose methods do not list GET
C14_Witness ==
    \E r \in Reqs :
        /\ req[r].hit /\ req[r].returned /\ req[r].rc.method = "GET"
        /\ "methods" \in DOMAIN req[r].rc.cache /\ "GET" \notin req[r].rc.cache.methods

\* word is a path segment of endpoint
HasSegment(endpoint, word) ==
    \E i \in 1..Len(endpoint) :
        LET j == i + Len(word)
        IN  /\ j <= Len(endpoint)
            /\ SubSeq(endpoint, i, j) = "/" \o word
            /\ (j = Len(endpoint) \/ SubSeq(endpoint, j + 1, j + 1) \in {"/", "?"})

\* C15: a POST not made eligible by policy.methods or allowUnsafeMethods is
\* eligible iff its path contains a configured safePaths substring, or its
\* Content-Type is a GraphQL media type, or its path has one of the read
\* words as a path segment, each condition sufficient on its own.
C15_PostEligibility ==
    \A r \in Reqs :
        LET q == req[r]
            safe == /\ "safePaths" \in DOMAIN q.rc.cache
                    /\ \E p \in q.rc.cache.safePaths : Includes(q.call.endpoint, p)
            graphql == Includes(ContentType(q.rc), "application/graphql")
            segment == \E w \in ReadWords : HasSegment(q.call.endpoint, w)
        IN  (/\ PastLookup(q) /\ q.rc.method = "POST"
             /\ ~Listed(q) /\ ~Truthy(q.rc.cache, "allowUnsafeMethods"))
            => /\ (safe \/ graphql \/ segment) => TreatedEligible(q)
               /\ ~(safe \/ graphql \/ segment) => TreatedIneligible(q)

\* with safePaths configured, a POST to /search went to the network without a
\* lookup and was not stored
C15_Witness ==
    \E r \in Reqs :
        /\ Done(req[r]) /\ req[r].returned /\ req[r].call.method = "POST"
        /\ req[r].call.endpoint = "/search" /\ "safePaths" \in DOMAIN req[r].rc.cache
        /\ req[r].lookedAt < 0 /\ req[r].wroteAt < 0

\* what holds of C15: without safePaths each of the other two conditions is
\* sufficient, with the default policy POST /search is eligible and POST
\* /orders is not, and with safePaths configured a POST is eligible iff its
\* path contains one of them
C15_PostEligibilityAsCoded ==
    \A r \in Reqs :
        LET q == req[r]
            graphql == Includes(ContentType(q.rc), "application/graphql")
        IN  (/\ PastLookup(q) /\ q.rc.method = "POST"
             /\ ~Listed(q) /\ ~Truthy(q.rc.cache, "allowUnsafeMethods"))
            => IF "safePaths" \in DOMAIN q.rc.cache
               THEN IF \E p \in q.rc.cache.safePaths : Includes(q.call.endpoint, p)
                    THEN TreatedEligible(q) ELSE TreatedIneligible(q)
               ELSE /\ (graphql \/ ReadPattern(q.call.endpoint)) => TreatedEligible(q)
                    /\ ~(graphql \/ ReadPattern(q.call.endpoint)) => TreatedIneligible(q)
                    /\ q.call.endpoint = "/search" => TreatedEligible(q)
                    /\ q.call.endpoint = "/orders" => TreatedIneligible(q)

\* the call's resolved policy stores in a caller-supplied backend whose get
\* always answers absent
BackendAbsent(q) ==
    /\ Started(q) /\ Truthy(q.rc.cache, "enabled") /\ q.rc.method = "GET"
    /\ q.rc.cache.storage = "custom" /\ HasCustomStorage(q.rc.cache)
    /\ q.rc.cache.customStorage = "absent"

\* C16: with a caller-supplied backend whose get always answers absent, a
\* successful cacheable GET calls the backend's set exactly once, after the
\* network response, with the key of the lookup and the resolved policy's ttl.
C16_SetOnceWithKeyAndTtl ==
    \A r \in Reqs :
        LET q == req[r]
        IN  BackendAbsent(q)
            => /\ ~q.hit
               /\ ~Done(q) => Len(q.setLog) = 0
               /\ (Done(q) /\ q.raised) => Len(q.setLog) = 0
               /\ (Done(q) /\ q.returned)
                  => /\ Len(q.setLog) = 1 /\ Len(q.getLog) = 1
                     /\ q.servedAt > 0 /\ q.wroteAt >= q.lookedAt
                     /\ q.setLog[1].key = q.getLog[1]
                     /\ q.setLog[1].ttl = q.rc.cache.ttl

\* such a GET returned after a retry, the clock having advanced between its
\* lookup and its write
C16_Witness ==
    \E r \in Reqs :
        /\ BackendAbsent(req[r]) /\ Done(req[r]) /\ req[r].returned
        /\ req[r].attempts = 2 /\ req[r].wroteAt > req[r].lookedAt
        /\ Len(req[r].setLog) = 1 /\ req[r].setLog[1].ttl = 2 * TickMs

\* C17: clearCache removes all entries, in the backend the requests use too:
\* after it getCacheStats reports size 0, and the next cacheable request for a
\* key cached before it misses and makes a network attempt, whichever backend
\* its resolved policy selects.
C17_ClearCacheCascades ==
    /\ [][ClearCache => GetCacheStats'.size = 0]_vars
    /\ [](\A r \in Reqs :
            (req[r].lookedAt >= 0 /\ req[r].keyPurged) => (~req[r].hit /\ req[r].attempts >= 1))

\* a request was served an entry that was cached before clearCache and not
\* written since
C17_Witness ==
    \E r \in Reqs : req[r].keyPurged /\ req[r].hit /\ req[r].returned /\ req[r].attempts = 0

\* C18: deleteCacheItem(k) removes the entry under k and leaves the others:
\* getCacheStats().keys is the previous key set minus k, the entries under
\* other keys are unchanged in every backend, and a later request mapping to
\* k misses.
C18_DeleteCacheItemRemoves ==
    /\ [][\A k \in StoreKeys :
            DeleteCacheItem(k)
            => /\ GetCacheStats'.keys = GetCacheStats.keys \ {k}
               /\ \A j \in (DOMAIN cache \cup DOMAIN localStore \cup DOMAIN customStore) \ {k} :
                    /\ j \in DOMAIN cache => (j \in DOMAIN cache' /\ cache'[j] = cache[j])
                    /\ j \in DOMAIN localStore => (j \in DOMAIN localStore' /\ localStore'[j] = localStore[j])
                    /\ j \in DOMAIN customStore => (j \in DOMAIN customStore' /\ customStore'[j] = customStore[j])]_vars
    /\ [](\A r \in Reqs :
            (req[r].lookedAt >= 0 /\ req[r].keyDeleted) => (~req[r].hit /\ req[r].attempts >= 1))

\* a request was served the entry under a key given to deleteCacheItem and not
\* written since
C18_Witness ==
    \E r \in Reqs : req[r].keyDeleted /\ req[r].hit /\ req[r].returned /\ req[r].attempts = 0

\* C19: with no custom delay function the wait before attempt n+1 is exactly
\* baseDelay * 2^n for the configured base delay (1000 when none is
\* configured) and the zero-based attempt index n.
C19_ExponentialBackoff ==
    \A r \in Reqs :
        LET q == req[r]
        IN  (q.pc = "sleep" /\ "retryDelayFunction" \notin DOMAIN q.rc.retry)
            => q.delay = q.rc.retry.retryDelay * Pow2(q.retryCount)

\* with a base delay of 0 configured, the call waits 2000 after attempt 1
C19_Witness ==
    \E r \in Reqs :
        /\ req[r].pc = "sleep" /\ req[r].rc.retry.retryDelay = 0
        /\ req[r].retryCount = 1 /\ req[r].delay = 2000

\* what holds of C19: the wait is base * 2^n where base is the configured
\* base delay when that is not 0, and 1000 otherwise
C19_ExponentialBackoffAsCoded ==
    \A r \in Reqs :
        LET q == req[r]
            base == IF q.rc.retry.retryDelay = 0 THEN 1000 ELSE q.rc.retry.retryDelay
        IN  (q.pc = "sleep" /\ "retryDelayFunction" \notin DOMAIN q.rc.retry)
            => q.delay = base * Pow2(q.retryCount)

\* C20: each attempt is bounded by the resolved timeout (the call's, else the
\* instance's, else 10 seconds), armed anew for every retry: no attempt is
\* still in progress once its timeout has elapsed; the attempt then ends as
\* TIMEOUT and goes to the retry decision.
C20_AttemptBoundedByTimeout ==
    \A r \in Reqs :
        LET q == req[r]
            resolved == IF q.call.timeout >= 0 THEN q.call.timeout
                        ELSE IF "timeout" \in DOMAIN config THEN config.timeout
                        ELSE DefaultTimeout
        IN  /\ q.pc = "fetch" => q.timer = resolved
            /\ q.pc \in {"fetch", "body"} => ~q.elapsed
            /\ (q.pc \in {"sleep", "handleError"} /\ q.elapsed)
               => /\ ToVelloError(q.err).code = "TIMEOUT"
                  /\ (q.pc = "sleep") <=> (q.retryCount < q.rc.retry.retries)

\* the timeout has elapsed while the body of the second attempt's Response is
\* read, and the attempt goes on
C20_Witness ==
    \E r \in Reqs :
        /\ req[r].pc = "body" /\ req[r].elapsed /\ req[r].timer < 0
        /\ req[r].attempts = 2

\* what holds of C20: the timer is armed anew with the resolved timeout for
\* every attempt, and an attempt whose timeout elapses before fetch has
\* resolved ends as TIMEOUT and goes to the retry decision
C20_FetchBoundedByTimeout ==
    \A r \in Reqs :
        LET q == req[r]
            resolved == IF q.call.timeout >= 0 THEN q.call.timeout
                        ELSE IF "timeout" \in DOMAIN config THEN config.timeout
                        ELSE DefaultTimeout
        IN  /\ q.pc = "fetch" => (q.timer = resolved /\ ~q.elapsed)
            /\ (q.pc \in {"sleep", "handleError"} /\ q.elapsed /\ q.lastResp = NoResp)
               => /\ ToVelloError(q.err).code = "TIMEOUT"
                  /\ (q.pc = "sleep") <=> (q.retryCount < q.rc.retry.retries)

\* the lookup of call r is made in this step
LooksUp(r) == req[r].lookedAt < 0 /\ req'[r].lookedAt >= 0

\* C21: identical cacheable requests made concurrently while no live entry
\* exists are not coalesced: each lookup that finds no live entry is a miss
\* followed at once by the call's own network attempt, also while an
\* identical call is in flight; every call that missed has made an attempt
\* of its own, so without retries the attempts are as many as the calls.
C21_NotCoalesced ==
    /\ [][\A r \in Reqs :
            (LooksUp(r) /\ CacheLookup(req'[r].call.endpoint, req'[r].rc) = NoEntry)
            => (req'[r].pc = "fetch" /\ req'[r].attempts = 1 /\ ~req'[r].hit)]_vars
    /\ [](\A r \in Reqs :
            (req[r].lookedAt >= 0 /\ ~req[r].hit)
            => /\ req[r].attempts >= 1
               /\ req[r].rc.retry.retries = 0 => req[r].attempts = 1)

\* two identical calls are both waiting for their own fetch, neither having
\* found an entry
C21_Witness ==
    \E r, s \in Reqs :
        /\ r # s /\ req[r].call = req[s].call
        /\ req[r].pc = "fetch" /\ req[s].pc = "fetch"
        /\ req[r].lookedAt >= 0 /\ req[s].lookedAt >= 0
        /\ req[r].found = NoEntry /\ req[s].found = NoEntry
        /\ req[r].attempts = 1 /\ req[s].attempts = 1

\* the cache key of call q
KeyOf(q) == GenerateCacheKey(BaseUrl \o q.call.endpoint, q.rc, config.cache)

\* the entry call q wrote when it returned its network response
EntryOf(q) ==
    [data |-> q.response.data, timestamp |-> q.wroteAt, ttl |-> NumOr(q.rc.cache, "ttl", DefaultTtl),
     status |-> q.response.status, statusText |-> q.response.statusText]

\* call r writes the cache in this step
Writes(r) == req[r].wroteAt < 0 /\ req'[r].wroteAt >= 0

\* C22: under any interleaving of overlapping calls the Map holds one entry
\* per key written, every entry in it is the whole entry one call wrote, and
\* a write replaces the entry under its key, so that the entry present is
\* the one written last; the entries under other keys are untouched.
C22_LastWriteWins ==
    /\ [](/\ DOMAIN cache = {KeyOf(req[r]) : r \in {s \in Reqs : req[s].wroteAt >= 0}}
          /\ \A k \in DOMAIN cache :
                \E r \in Reqs : req[r].wroteAt >= 0 /\ KeyOf(req[r]) = k /\ cache[k] = EntryOf(req[r]))
    /\ [][\A r \in Reqs :
            Writes(r)
            => /\ cache'[KeyOf(req'[r])] = EntryOf(req'[r])
               /\ \A k \in DOMAIN cache \ {KeyOf(req'[r])} : cache'[k] = cache[k]]_vars

\* two overlapping identical calls both wrote, the second a different
\* response at a later time, and the Map holds the second's entry
C22_Witness ==
    \E r, s \in Reqs :
        /\ r # s /\ r \notin req[s].after /\ s \notin req[r].after
        /\ req[r].wroteAt >= 0 /\ req[s].wroteAt > req[r].wroteAt
        /\ KeyOf(req[r]) = KeyOf(req[s])
        /\ req[r].response.status = 200 /\ req[s].response.status = 201
        /\ cache[KeyOf(req[s])] = EntryOf(req[s])
        /\ Cardinality(DOMAIN cache) = 1

\* the value of property f resolved from three layers: the call's when the
\* call has f, else the instance's when the instance has f, else the library's
Layered(f, ofCall, ofInstance, ofLibrary) ==
    IF f \in DOMAIN ofCall THEN ofCall[f]
    ELSE IF f \in DOMAIN ofInstance THEN ofInstance[f]
    ELSE ofLibrary[f]

\* the instance's default headers
DefaultHeaders == IF "defaultHeaders" \in DOMAIN config THEN config.defaultHeaders ELSE Empty

\* C23: config resolution gives the call's values precedence over the
\* instance's and the instance's over the library's: key by key for the
\* headers (Content-Type: application/json lowest), field by field for the
\* retry policy (library: 0 retries, 1000 ms base delay) and for the cache
\* policy (library: disabled, 5 minutes, in memory).
C23_ResolutionPrecedence ==
    \A r \in Reqs :
        LET q == req[r]
        IN  Started(q)
            => /\ DOMAIN q.rc.headers = {"Content-Type"} \cup DOMAIN DefaultHeaders \cup DOMAIN q.call.headers
               /\ \A k \in DOMAIN q.rc.headers :
                     q.rc.headers[k] = Layered(k, q.call.headers, DefaultHeaders,
                                               [h \in {k} |-> "application/json"])
               /\ q.rc.retry.retries = Layered("retries", q.call.retry, config.retry, [retries |-> 0])
               /\ q.rc.retry.retryDelay = Layered("retryDelay", q.call.retry, config.retry, [retryDelay |-> 1000])
               /\ q.rc.cache.enabled = Layered("enabled", q.call.cache, config.cache, [enabled |-> FALSE])
               /\ q.rc.cache.ttl = Layered("ttl", q.call.cache, config.cache, [ttl |-> 300000])
               /\ q.rc.cache.storage = Layered("storage", q.call.cache, config.cache, [storage |-> "memory"])

\* a call resolved with a value of each layer in its headers, in its retry
\* policy and in its cache policy
C23_Witness ==
    \E r \in Reqs :
        LET q == req[r]
        IN  /\ Started(q)
            /\ q.rc.headers = ("Content-Type" :> "application/json" @@ "Authorization" :> "token"
                                @@ "X-Trace" :> "call")
            /\ q.call.retry = [retryDelay |-> 500] /\ config.retry = [retries |-> 1, retryDelay |-> 250]
            /\ q.rc.retry.retries = 1 /\ q.rc.retry.retryDelay = 500
            /\ q.rc.retry.retryCondition = "default"
            /\ config.cache = [enabled |-> TRUE, ttl |-> 2 * TickMs, storage |-> "localStorage"]
            /\ q.call.cache = [enabled |-> FALSE]
            /\ q.rc.cache = [enabled |-> FALSE, ttl |-> 2 * TickMs, storage |-> "localStorage"]

\* C24: every call eventually completes: for every retries value, under fair
\* progress of the transport and the timers, a call that was made ends,
\* having returned a VelloResponse or raised an error; it does not stay
\* pending forever.
C24_EventuallyCompletes ==
    \A r \in Reqs :
        Started(req[r]) ~> (Done(req[r]) /\ (req[r].returned \/ req[r].raised))

\* a call ended after its retries were used up, the last attempt cut off by
\* its timer
C24_Witness ==
    \E r \in Reqs :
        /\ Done(req[r]) /\ req[r].raised /\ req[r].rc.retry.retries = MaxRetries
        /\ req[r].attempts = MaxRetries + 1 /\ req[r].final = AbortError

\* C25: the network attempts of one call are never more than retries + 1,
\* and exactly 1 for a call in or past its retry loop when retries is 0 or
\* unset, whatever the retry predicate answers and however the attempts
\* fail; the predicate is not consulted for an attempt whose index has
\* reached retries.
C25_AttemptsBounded ==
    \A r \in Reqs :
        LET q == req[r]
            retries == IF "retries" \in DOMAIN q.call.retry THEN q.call.retry.retries
                       ELSE IF "retries" \in DOMAIN config.retry THEN config.retry.retries
                       ELSE 0
        IN  Started(q)
            => /\ q.attempts <= retries + 1
               /\ (retries = 0 /\ q.pc \in {"fetch", "body", "sleep", "handleError"}) => q.attempts = 1
               /\ (retries = 0 /\ q.final # NoErr) => q.attempts = 1
               /\ q.condCalls <= retries
               /\ (q.pc \in {"sleep", "handleError"} /\ q.retryCount >= retries)
                  => (q.condCalls = q.retryCount /\ q.pc = "handleError")

\* a call whose predicate always says retry gave up after retries + 1
\* attempts, the predicate consulted retries times, the last attempt having
\* failed with a 404
C25_Witness ==
    \E r \in Reqs :
        LET q == req[r]
        IN  /\ q.pc = "handleError" /\ q.rc.retry.retryCondition = "always"
            /\ q.rc.retry.retries = MaxRetries /\ q.attempts = MaxRetries + 1
            /\ q.condCalls = MaxRetries /\ q.err.status = 404

\* the retry predicate of call q answers false for error
Refused(q, error) == ~RetryCondition(q.rc.retry.retryCondition, ToVelloError(error))

\* C26: when an attempt fails with an error for which the retry predicate
\* answers false, the retry loop ends at that attempt even when retries
\* remain: no wait and no further network attempt follow, and that error is
\* the final error, the one passed to the error interceptor and raised.
C26_NonRetryableEnds ==
    \A r \in Reqs :
        LET q == req[r]
        IN  /\ (q.pc \in {"sleep", "handleError"} /\ Refused(q, q.err)) => q.pc = "handleError"
            /\ (q.final # NoErr /\ Refused(q, q.final))
               => /\ Done(q) /\ q.raised /\ ~q.returned
                  /\ q.attempts = q.retryCount + 1
                  /\ config.errorInterceptor # "none" => q.errIcArg = ToVelloError(q.final)
                  /\ q.thrown = ToVelloError(q.final)

\* with two retries left the predicate refused a network failure; the error
\* interceptor was given a NETWORK_ERROR and the caller the TypeError
C26_Witness ==
    \E r \in Reqs :
        LET q == req[r]
        IN  /\ Done(q) /\ q.raised /\ q.rc.retry.retryCondition = "never"
            /\ q.rc.retry.retries = 2 /\ q.attempts = 1
            /\ q.errIcCalls = 1 /\ q.errIcArg.code = "NETWORK_ERROR"
            /\ q.thrown = FetchTypeError

\* what holds of C26: a refused error ends the loop at that attempt, without
\* a wait or a further attempt; its classification is passed to the error
\* interceptor; the caller is raised the error as the attempt threw it, or
\* the error interceptor's own
C26_NonRetryableEndsAsCoded ==
    \A r \in Reqs :
        LET q == req[r]
        IN  /\ (q.pc \in {"sleep", "handleError"} /\ Refused(q, q.err)) => q.pc = "handleError"
            /\ (q.final # NoErr /\ Refused(q, q.final))
               => /\ Done(q) /\ q.raised /\ ~q.returned
                  /\ q.attempts = q.retryCount + 1
                  /\ config.errorInterceptor # "none" => q.errIcArg = ToVelloError(q.final)
                  /\ q.thrown = Thrown(q.final, config.errorInterceptor)

\* C27: a configured request interceptor is invoked exactly once per call,
\* after config resolution and before the cache lookup, and not again on
\* retries; the config it returns is the requestConfig from then on: cache
\* eligibility, the cache key, the timeout and the retries of every network
\* attempt and the config of the VelloResponse are taken from it.
C27_RequestInterceptorOnce ==
    \A r \in Reqs :
        LET q == req[r]
            out == q.reqIcOut
        IN  /\ q.reqIcCalls = IF Started(q) /\ config.requestInterceptor # "none" THEN 1 ELSE 0
            /\ q.pc = "intercept"
               => (q.rc = ResolveConfig(config, q.call) /\ q.lookedAt < 0 /\ q.attempts = 0)
            /\ (Started(q) /\ q.pc # "intercept" /\ config.requestInterceptor \in {"pass", "rewrite"})
               => /\ q.rc = out
                  /\ q.lookedAt >= 0 <=> (/\ Truthy(out.cache, "enabled")
                                           /\ IsCacheableRequest(q.call.endpoint, out, config.cache))
                  /\ q.attempts <= out.retry.retries + 1
                  /\ q.pc = "fetch" => q.timer = out.timeout
                  /\ q.wroteAt >= 0 => GenerateCacheKey(BaseUrl \o q.call.endpoint, out, config.cache) \in DOMAIN cache
                  /\ q.returned => q.response.config = out

\* under a client without a cache policy and with two retries, a call whose
\* interceptor rewrote the config was stored under the rewritten key after
\* the one retry of the rewritten policy
C27_Witness ==
    \E r \in Reqs :
        LET q == req[r]
        IN  /\ q.returned /\ config.requestInterceptor = "rewrite"
            /\ config.cache = Empty /\ config.retry = [retries |-> MaxRetries]
            /\ q.reqIcCalls = 1 /\ q.attempts = 2 /\ q.wroteAt >= 0
            /\ q.response.config.headers["Content-Type"] = "application/vnd.api+json"
            /\ DOMAIN cache = {"vello:GET:https://api.test/users:application/vnd.api+json"}

\* the data of the VelloResponse call q built: the entry's on a hit, the
\* parsed body's otherwise
BuiltData(q) == IF q.hit THEN q.found.data ELSE "object"

\* C28: a call that returns with a response interceptor configured has had
\* the interceptor applied exactly once to its VelloResponse, on a cache hit
\* as on a network response, and returns what the interceptor returned; the
\* interceptor is not applied to an attempt that fails.
C28_ResponseInterceptorOnce ==
    \A r \in Reqs :
        LET q == req[r]
        IN  /\ config.responseInterceptor = "none" => q.respIcCalls = 0
            /\ (q.returned /\ config.responseInterceptor # "none")
               => /\ q.respIcCalls = 1
                  /\ q.response.data = IF config.responseInterceptor = "rewrite"
                                        THEN "mapped:" \o BuiltData(q) ELSE BuiltData(q)
            /\ (q.pc \in {"fetch", "sleep", "handleError"} /\ q.err.src # "responseInterceptor")
               => q.respIcCalls = 0
            /\ (q.raised /\ q.thrown.src # "responseInterceptor") => q.respIcCalls = 0

\* a call returned the interceptor's result for a network response after a
\* failed attempt, and the next call the interceptor's result for the entry
\* cached by the first
C28_Witness ==
    \E r, s \in Reqs :
        /\ config.responseInterceptor = "rewrite"
        /\ req[r].returned /\ ~req[r].hit /\ req[r].attempts = 2 /\ req[r].respIcCalls = 1
        /\ req[r].response.data = "mapped:object"
        /\ req[s].returned /\ req[s].hit /\ req[s].respIcCalls = 1
        /\ req[s].response.data = "mapped:mapped:object"

\* the resolved policy of call q has the fixed string str as its key
HasFixedKey(q, str) ==
    "key" \in DOMAIN q.rc.cache /\ q.rc.cache.key = [typeof |-> "string", value |-> str]

\* the resolved policy of call q has a function as its key
HasKeyFunction(q) == "key" \in DOMAIN q.rc.cache /\ q.rc.cache.key.typeof = "function"

\* the key call q is to be cached under
ExpectedKey(q) ==
    IF HasKeyFunction(q)
    THEN "user123-" \o (IF q.call.endpoint = "/search" THEN "search" ELSE "1") \o "-" \o q.call.method
    ELSE IF "key" \in DOMAIN q.rc.cache THEN q.rc.cache.key.value
    ELSE "vello:" \o q.call.method \o ":https://api.test" \o q.call.endpoint \o ":application/json"

\* call r1 was the last to store a network response, under the fixed key, and
\* r2, made later, resolved with the same fixed key and looked the cache up
\* within the TTL of the entry and of its own policy
Shares(r1, r2) ==
    LET q1 == req[r1]
        q2 == req[r2]
    IN  /\ r1 # r2 /\ r1 \in q2.after
        /\ q1.returned /\ ~q1.hit /\ q1.wroteAt >= 0 /\ HasFixedKey(q1, FixedKey)
        /\ q2.lookedAt >= 0 /\ HasFixedKey(q2, FixedKey)
        /\ \A r3 \in q2.after \ {r1} : req[r3].wroteAt >= 0 => r3 \in q1.after
        /\ q2.lookedAt - q1.wroteAt < q1.rc.cache.ttl
        /\ q2.lookedAt - q1.wroteAt < q2.rc.cache.ttl

\* C29: a fixed string key of the resolved policy is the cache key as it
\* stands, whatever the method, URL, headers or body: every entry is under
\* the fixed key of the call that wrote it (under the key function's value
\* when the key is a function, under the derived key when there is none),
\* and after a request stored under K another eligible request resolved
\* with key K within TTL is served that entry without a network attempt.
C29_FixedKeyVerbatim ==
    /\ DOMAIN cache = {ExpectedKey(req[r]) : r \in {s \in Reqs : req[s].wroteAt >= 0}}
    /\ \A r1, r2 \in Reqs :
          Shares(r1, r2)
          => /\ req[r2].hit /\ req[r2].returned /\ req[r2].attempts = 0
             /\ req[r2].found = EntryOf(req[r1])
             /\ req[r2].response.data = req[r1].response.data
             /\ req[r2].response.status = req[r1].response.status

\* a POST to /search was served the 201 response of a GET of /users/1 stored
\* under the same fixed key
C29_Witness ==
    \E r1, r2 \in Reqs :
        /\ Shares(r1, r2)
        /\ req[r1].call.method = "GET" /\ req[r1].call.endpoint = "/users/1"
        /\ req[r2].call.method = "POST" /\ req[r2].call.endpoint = "/search"
        /\ req[r2].hit /\ req[r2].attempts = 0 /\ req[r2].response.status = 201
        /\ DOMAIN cache = {FixedKey}

\* the entry under key k of a backend is gone or another one in the next state
Changed(k, store, next) == k \notin DOMAIN next \/ next[k] # store[k]

\* call r returns a network response in this step and stores it under key k
Replaces(r, k) == Writes(r) /\ req'[r].returned /\ ~req'[r].hit /\ KeyOf(req'[r]) = k

\* C30: expiry is lazy: a lookup that reads an expired entry leaves the
\* entry where it is, getCacheStats reporting the same keys and size; an
\* entry, expired or not, stays in its backend until a successful response
\* stored under its key replaces it, or deleteCacheItem or clearCache
\* removes it.
C30_LazyExpiry ==
    /\ [][\A r \in Reqs :
            (LooksUp(r) /\ req'[r].found # NoEntry /\ ~req'[r].hit)
            => /\ <<cache, localStore, customStore>>' = <<cache, localStore, customStore>>
               /\ GetCacheStats' = GetCacheStats]_vars
    /\ [][/\ \A k \in DOMAIN cache :
               Changed(k, cache, cache')
               => (ClearCache \/ DeleteCacheItem(k) \/ \E r \in Reqs : Replaces(r, k))
          /\ \A k \in DOMAIN localStore :
               Changed(k, localStore, localStore')
               => (ClearCache \/ DeleteCacheItem(k) \/ \E r \in Reqs : Replaces(r, k))
          /\ \A k \in DOMAIN customStore :
               Changed(k, customStore, customStore')
               => (ClearCache \/ DeleteCacheItem(k) \/ \E r \in Reqs : Replaces(r, k))]_vars

\* a call read an entry as old as its ttl, went to the network and failed,
\* and getCacheStats still reports the entry
C30_Witness ==
    \E r \in Reqs :
        LET q == req[r]
        IN  /\ Done(q) /\ q.raised /\ q.found # NoEntry /\ ~q.hit
            /\ q.lookedAt - q.found.timestamp >= q.found.ttl
            /\ GetCacheStats.size = 1 /\ KeyOf(q) \in GetCacheStats.keys
            /\ cache[KeyOf(q)] = q.found

\* call r is served from the cache in this step
Hits(r) == ~req[r].hit /\ req'[r].hit

\* the entries of every backend
Entries ==
    {cache[k] : k \in DOMAIN cache}
    \cup {Parse(localStore[k]) : k \in DOMAIN localStore}
    \cup {customStore[k] : k \in DOMAIN customStore}

\* C31: a cache hit leaves the store unchanged: it writes no entry, does not
\* refresh the entry's timestamp and does not store the ' (Cached)' marker.
\* Every entry has the time and the status text of the network response
\* that created it, so its lifetime is measured from that response, and a
\* hit returns the entry's status text with exactly one marker.
C31_HitLeavesStore ==
    /\ [][\A r \in Reqs :
            Hits(r)
            => /\ <<cache, localStore, customStore>>' = <<cache, localStore, customStore>>
               /\ req'[r].wroteAt < 0
               /\ req'[r].returned
                  => req'[r].response.statusText = req'[r].found.statusText \o " (Cached)"]_vars
    /\ [](\A e \in Entries :
            /\ e.statusText \in {"OK", "Not Found", "Internal Server Error"}
            /\ \E r \in Reqs : ~req[r].hit /\ req[r].wroteAt = e.timestamp)

\* a call was served, some time after the response that created the entry,
\* and the entry in the Map is still the one that response created
C31_Witness ==
    \E r, s \in Reqs :
        /\ req[s].hit /\ req[s].returned /\ req[s].response.statusText = "OK (Cached)"
        /\ req[r].returned /\ ~req[r].hit /\ req[r].wroteAt >= 0
        /\ req[s].lookedAt > req[r].wroteAt
        /\ req[s].found.timestamp = req[r].wroteAt
        /\ Entries = {req[s].found}

\* the backend named by the resolved policy of call q holds entry under key
InOwnBackend(q, key, entry) ==
    CASE q.rc.cache.storage = "localStorage" -> key \in DOMAIN localStore /\ Parse(localStore[key]) = entry
      [] q.rc.cache.storage = "custom" -> key \in DOMAIN customStore /\ customStore[key] = entry
      [] OTHER -> key \in DOMAIN cache /\ cache[key] = entry

\* C32: backend selection is per request: a request is served only an entry
\* of the backend its own resolved policy.storage names, an entry lying in
\* another backend under its key does not make it a hit, and its write
\* changes the named backend only.
C32_BackendPerRequest ==
    [][\A r \in Reqs :
          /\ Hits(r) => InOwnBackend(req'[r], KeyOf(req'[r]), req'[r].found)
          /\ (LooksUp(r) /\ ~InOwnBackend(req'[r], KeyOf(req'[r]), req'[r].found))
             => (~req'[r].hit /\ req'[r].found = NoEntry)
          /\ Writes(r)
             => CASE req'[r].rc.cache.storage = "localStorage" ->
                       <<cache, customStore>>' = <<cache, customStore>>
                  [] req'[r].rc.cache.storage = "custom" ->
                       <<cache, localStore>>' = <<cache, localStore>>
                  [] OTHER -> <<localStore, customStore>>' = <<localStore, customStore>>]_vars

\* a call whose policy names localStorage went to the network and stored
\* there, while the Map held a live entry under its key, written by a call
\* whose policy names the Map
C32_Witness ==
    \E r, s \in Reqs :
        /\ req[r].returned /\ ~req[r].hit /\ req[r].wroteAt >= 0 /\ req[r].rc.cache.storage = "memory"
        /\ req[s].returned /\ ~req[s].hit /\ req[s].wroteAt >= 0 /\ req[s].rc.cache.storage = "localStorage"
        /\ r \in req[s].after /\ req[s].lookedAt = req[r].wroteAt
        /\ KeyOf(req[r]) = KeyOf(req[s])
        /\ KeyOf(req[r]) \in DOMAIN cache /\ KeyOf(req[r]) \in DOMAIN localStore
        /\ req[s].attempts = 1

\* the call waits for a retry under a policy with a delay function
WaitsByFunction(q) == q.pc = "sleep" /\ "retryDelayFunction" \in DOMAIN q.rc.retry

\* C33: with a custom delay function configured the wait before attempt n+1
\* is customFn(n, error), the base delay playing no part, where the error
\* given to customFn has the classification code (TIMEOUT, NETWORK_ERROR,
\* the status as a string, UNKNOWN) of the error the retry predicate was
\* given for attempt n.
C33_CustomDelay ==
    \A r \in Reqs :
        LET q == req[r]
        IN  WaitsByFunction(q)
            => q.delay = RetryDelayFunction(q.retryCount, ToVelloError(q.err))

\* after a second attempt cut off by its timer, which the predicate was
\* given as TIMEOUT, the call waits what the delay function answers for
\* UNKNOWN
C33_Witness ==
    \E r \in Reqs :
        LET q == req[r]
        IN  /\ WaitsByFunction(q) /\ q.err = AbortError /\ q.retryCount = 1
            /\ ToVelloError(q.err).code = "TIMEOUT"
            /\ q.delay = 600

\* what holds of C33: the wait is customFn(n, error) and the base delay
\* plays no part; the error given to customFn is the attempt's error when
\* that is a VelloError, and an UNKNOWN error otherwise
C33_CustomDelayAsCoded ==
    \A r \in Reqs :
        LET q == req[r]
            given == IF q.err.name = "VelloError" THEN q.err.code ELSE "UNKNOWN"
        IN  WaitsByFunction(q)
            => q.delay = (q.retryCount + 1) * (CASE given = "TIMEOUT" -> 100
                                                 [] given = "NETWORK_ERROR" -> 200
                                                 [] given = "UNKNOWN" -> 300
                                                 [] OTHER -> 400)

\* the attempt of call r in flight ends in this step
AttemptEnds(r) == req[r].pc = "fetch" /\ (req'[r].pc # "fetch" \/ req'[r].attempts # req[r].attempts)

\* C34: cancellation is scoped to a single attempt: every attempt in flight
\* has a timer of its own, an attempt ends as aborted only when its own
\* timer fires, and a timer left armed by an earlier attempt or by another
\* call, firing later, ends no attempt and changes no call's course.
C34_CancellationPerAttempt ==
    /\ [](\A r \in Reqs : req[r].pc = "fetch" => req[r].attempts \in req[r].armed)
    /\ [][\A r \in Reqs :
            /\ (AttemptEnds(r) /\ req'[r].err = AbortError)
               => (req[r].attempts \in req[r].armed /\ req[r].attempts \notin req'[r].armed)
            /\ req'[r].lateFires # req[r].lateFires
               => \A s \in Reqs :
                     /\ ~AttemptEnds(s)
                     /\ req'[s] = IF s = r
                                  THEN [req[s] EXCEPT !.armed = req'[s].armed, !.lateFires = @ + 1]
                                  ELSE req[s]]_vars

\* the timer of a call's first attempt, rejected by the transport, fired
\* while its second attempt and another call's attempt were in flight, and
\* both are still in flight
C34_Witness ==
    \E r, s \in Reqs :
        /\ r # s
        /\ req[r].pc = "fetch" /\ req[r].attempts = 2 /\ req[r].lateFires = 1
        /\ req[r].armed = {2}
        /\ req[s].pc = "fetch" /\ req[s].attempts = 1 /\ req[s].armed = {1}

\* C35: once the transport has returned a 2xx response for a call, no further
\* network attempt is made for that call: the attempt that got the 2xx
\* response is the last one, also when parsing or the response interceptor
\* fails afterwards.
C35_NoAttemptAfterSuccess ==
    \A r \in Reqs : req[r].servedAt > 0 => req[r].attempts = req[r].servedAt

\* a second network attempt is in flight after the first one got a 2xx
\* response whose parsing or response interceptor failed
C35_Witness ==
    \E r \in Reqs :
        /\ req[r].servedAt = 1
        /\ req[r].attempts = 2
        /\ req[r].pc = "fetch"

\* as coded: a failure after the 2xx response is an UNKNOWN error without a
\* status, which the default predicate does not retry; the attempt that got
\* the 2xx response is the last one unless the caller's predicate accepts
\* the error
C35_NoAttemptAfterSuccessAsCoded ==
    \A r \in Reqs :
        (req[r].servedAt > 0 /\ req[r].rc.retry.retryCondition # "always")
            => req[r].attempts = req[r].servedAt

\* call r2 was served the entry that call r1, which returned a network
\* response, was the last to store
Populated(r1, r2) ==
    LET q1 == req[r1]
        q2 == req[r2]
    IN  /\ r1 # r2 /\ r1 \in q2.after
        /\ q1.returned /\ ~q1.hit /\ q1.wroteAt >= 0
        /\ q2.returned /\ q2.hit
        /\ KeyOf(q1) = KeyOf(q2)
        /\ \A r3 \in q2.after \ {r1} : req[r3].wroteAt >= 0 => r3 \in q1.after

\* C36: the payload a caller receives from a cache hit equals the payload
\* the caller received from the call that populated the entry, also when a
\* response interceptor that transforms the payload is configured.
C36_HitPayloadAsPopulated ==
    \A r1, r2 \in Reqs :
        Populated(r1, r2) => req[r2].response.data = req[r1].response.data

\* a call was served the entry a call stored under a transforming response
\* interceptor, and both have returned
C36_Witness ==
    \E r1, r2 \in Reqs :
        /\ Populated(r1, r2)
        /\ config.responseInterceptor = "rewrite"
        /\ req[r1].attempts = 1

\* as coded: the entry holds the interceptor's result for the network
\* response and a hit passes the entry through the interceptor again, so the
\* hit's payload is the interceptor's result for the populating call's payload
C36_HitPayloadAsCoded ==
    \A r1, r2 \in Reqs :
        Populated(r1, r2)
        => req[r2].response.data = ResponseInterceptorResult(req[r1].response).data

\* C37: within one request the eligibility decision and the cache key of
\* the write after the response are those of the lookup before the network
\* call, also when setCacheConfig runs while the request is in flight: a
\* request writes only if it looked up, under the key it looked up, and a
\* request that looked up and returned a network response has written.
C37_LookupAndWriteAgree ==
    \A r \in Reqs :
        LET q == req[r]
        IN  /\ q.wroteAt >= 0 => (q.lookedAt >= 0 /\ q.wroteKey = q.lookedKey)
            /\ (q.lookedAt >= 0 /\ q.returned /\ ~q.hit) => q.wroteAt >= 0

\* a request looked up under the derived key and, the policy having been
\* replaced while it was in flight, stored its response under another key
C37_Witness ==
    \E r \in Reqs :
        /\ req[r].returned /\ req[r].lookedAt >= 0 /\ req[r].wroteAt >= 0
        /\ req[r].lookedKey = "vello:GET:https://api.test/users:application/json"
        /\ req[r].wroteKey = "important-user-1"

\* as coded: the write decides and derives its key with the instance policy
\* as it is when the response arrives, laid under the resolved policy
C37_WriteAsCoded ==
    [][\A r \in Reqs :
        (req[r].pc = "fetch" /\ req'[r].returned)
        => /\ req'[r].wroteAt >= 0
              <=> IsCacheableRequest(req[r].call.endpoint, req[r].rc, config.cache)
           /\ req'[r].wroteAt >= 0
              => req'[r].wroteKey = GenerateCacheKey(BaseUrl \o req[r].call.endpoint, req[r].rc, config.cache)]_vars

\* the resolved policy of call q is enabled with a TTL of 0
ZeroTtl(q) == q.rc # Empty /\ Truthy(q.rc.cache, "enabled") /\ q.rc.cache.ttl = 0

\* C38: a cacheable request whose resolved TTL is 0 is never served from
\* the cache: it is not a hit, and when it has ended it has made a network
\* attempt.
C38_ZeroTtlNeverServed ==
    \A r \in Reqs :
        ZeroTtl(req[r]) => (~req[r].hit /\ (req[r].pc = "done" => req[r].attempts >= 1))

\* a call with a resolved TTL of 0 was served the entry an earlier call
\* stored, without a network attempt
C38_Witness ==
    \E r \in Reqs :
        /\ ZeroTtl(req[r])
        /\ req[r].returned /\ req[r].hit /\ req[r].attempts = 0
        /\ req[r].found # NoEntry

\* as coded: a TTL of 0 is replaced by the default of five minutes at the
\* lookup, so the call is served whatever entry is younger than that
C38_ZeroTtlAsCoded ==
    \A r \in Reqs :
        (ZeroTtl(req[r]) /\ req[r].lookedAt >= 0 /\ req[r].found # NoEntry)
            => (req[r].hit <=> req[r].lookedAt - req[r].found.timestamp < DefaultTtl)

\* C39: a failure while deriving the cache key is absorbed like any other
\* cache-layer failure: no call ends with the key's error, a call with a
\* cache enabled that has ended has made a network attempt or was served
\* an entry, and a call that got a 2xx response has returned it.
C39_KeyFailureAbsorbed ==
    \A r \in Reqs :
        LET q == req[r]
        IN  /\ q.raised => q.thrown.src # "key"
            /\ q.pc = "done" => (q.hit \/ q.attempts >= 1)
            /\ (q.pc = "done" /\ q.servedAt > 0) => q.returned

\* a call got a 2xx response and ended with the error of the key function
\* installed while it was in flight
C39_Witness ==
    \E r \in Reqs :
        /\ req[r].raised /\ req[r].thrown = KeyFunctionError
        /\ req[r].servedAt = 1 /\ req[r].attempts = 1
        /\ req[r].lookedAt >= 0 /\ req[r].wroteAt < 0

\* as coded: the key's error ends the call where it is thrown: before the
\* lookup, with no network attempt, or before the write, after the 2xx
\* response of the last attempt; nothing is stored
C39_KeyFailureAsCoded ==
    \A r \in Reqs :
        LET q == req[r]
        IN  (q.raised /\ q.thrown.src = "key")
            => /\ q.wroteAt < 0 /\ ~q.hit
               /\ \/ q.attempts = 0 /\ q.lookedAt < 0
                  \/ q.attempts >= 1 /\ q.servedAt = q.attempts

\* what can be observed of a call: its network attempts, its wait, the
\* interceptor and predicate invocations with their arguments, and its
\* outcome
Observed(q) ==
    [attempts |-> q.attempts, retryCount |-> q.retryCount, pc |-> q.pc,
     err |-> q.err, delay |-> q.delay,
     reqIcCalls |-> q.reqIcCalls, respIcCalls |-> q.respIcCalls,
     condCalls |-> q.condCalls, errIcCalls |-> q.errIcCalls, errIcArg |-> q.errIcArg,
     returned |-> q.returned, raised |-> q.raised, thrown |-> q.thrown,
     data |-> q.response.data, status |-> q.response.status,
     statusText |-> q.response.statusText]

\* a resolved config without its cache policy
Uncached(rc) == [k \in DOMAIN rc \ {"cache"} |-> rc[k]]

\* C40: with the cache disabled the caching client and the cache-less
\* client are equivalent: for the same configuration, call and transport
\* behaviour the caching client makes the attempts the cache-less client
\* made and no other, sleeps the same delays, invokes the interceptors and
\* the retry predicate as often and with the same arguments, ends with the
\* same outcome, and its cache is neither looked up nor written.
C40_VariantsEquivalent ==
    LET lite == req[LiteClient]
        full == req[CachingClient]
    IN  full.pc # "idle"
        => /\ lite.pc \in {"handleError", "done"} => full.attempts <= lite.attempts
           /\ full.pc \in {"handleError", "done"} => lite.attempts <= full.attempts
           /\ full.pc = "sleep"
              => /\ full.attempts <= Len(lite.waits)
                 /\ full.delay = lite.waits[full.attempts]
           /\ (full.pc = lite.pc /\ full.attempts = lite.attempts)
              => /\ Observed(full) = Observed(lite)
                 /\ full.pc # "intercept" => Uncached(full.rc) = Uncached(lite.rc)
           /\ ~full.hit /\ full.lookedAt < 0 /\ full.wroteAt < 0
           /\ cache = Empty /\ localStore = Empty /\ customStore = Empty

\* both clients, with a transforming response interceptor, have returned the
\* second attempt's response after the same wait
C40_Witness ==
    /\ config.responseInterceptor = "rewrite"
    /\ req[LiteClient].returned /\ req[CachingClient].returned
    /\ req[LiteClient].attempts = 2 /\ req[CachingClient].attempts = 2
    /\ req[LiteClient].waits = <<DefaultRetryDelay>>
    /\ req[CachingClient].response.data = "mapped:object"
    /\ req[LiteClient].response.data = "mapped:object"

====
